---- MODULE Spec2Model ----
(***************************************************************************)
(* A model of the u-blox log client (src/log.cpp, src/log.h):              *)
(* the ring buffer of log entries held in a LogContext, its two writers    *)
(* LOG (no mutex) and LOGX (under gLogMutex), the pop getLog, the drain    *)
(* writeLog, the dump printLog and the log file opened by initLogFile.     *)
(*                                                                         *)
(* Every function is translated statement by statement: a thread is a     *)
(* frame th[p] with a program counter and the function's locals, and one   *)
(* action is one statement (or one condition) that touches shared state.   *)
(* Pointers into the entry array are slot indices: pLog + i is i.          *)
(***************************************************************************)
EXTENDS Integers, Sequences, FiniteSets, TLC

(* ------------------------------------------------------------------ *)
(* Bounds of the model                                                  *)
(* ------------------------------------------------------------------ *)

\* The number of slots of the entry array (500 in src/log.h:39, an
\* overridable macro), scaled down.
MAX_NUM_LOG_ENTRIES == 3

\* The timestamp is an unsigned int: arithmetic modulo 2^32, scaled down
\* to arithmetic modulo TimeModulus.
TimeModulus == 4

\* LOG is not called once logEntriesOverwritten has reached this value.
MaxOverwritten == 2

\* The calls the threads make from the state InitOpen.
MaxCalls == 4

\* writeLog() is not called when the log file would hold more entries
\* than this afterwards.
MaxFileEntries == 4

\* The sequence numbers newLogFile() tries (1000 in src/log.cpp:148),
\* scaled down.
NumFileNames == 2

\* The calls the threads make from the state InitUpload.
MaxUploadCalls == 2

\* The entries the read buffer of the upload holds (20 in src/log.cpp:41),
\* scaled down.
TcpBufferEntries == 1

(* ------------------------------------------------------------------ *)
(* Program constants                                                    *)
(* ------------------------------------------------------------------ *)

LOG_VERSION == 0
LOGGING_MAX_LEN_PATH == 56
LOGGING_MAX_LEN_FILE_NAME == 8
LOGGING_MAX_LEN_FILE_PATH == LOGGING_MAX_LEN_PATH + LOGGING_MAX_LEN_FILE_NAME
LOGGING_NUM_WRITES_BEFORE_FLUSH == 1
EVENT_LOG_START == 3
EVENT_LOG_STOP == 4
EVENT_LOG_FILES_TO_UPLOAD == 5
EVENT_LOG_UPLOAD_STARTING == 6
EVENT_LOG_FILE_BYTE_COUNT == 7
EVENT_LOG_FILE_UPLOAD_COMPLETED == 8
EVENT_LOG_UPLOAD_TASK_COMPLETED == 9
EVENT_LOG_FILE_OPEN == 10
EVENT_LOG_FILE_OPEN_FAILURE == 11
EVENT_LOG_FILE_CLOSE == 12
EVENT_FILE_DELETED == 16
EVENT_FILE_DELETE_FAILURE == 17
EVENT_DIR_OPEN == 18
EVENT_DIR_OPEN_FAILURE == 19
EVENT_DNS_LOOKUP == 21
EVENT_DNS_LOOKUP_FAILURE == 22
EVENT_SOCKET_OPENING == 23
EVENT_SOCKET_OPENING_FAILURE == 24
EVENT_SOCKET_OPENED == 25
EVENT_TCP_CONNECTING == 26
EVENT_TCP_CONNECT_FAILURE == 27
EVENT_TCP_CONNECTED == 28
EVENT_USER_0 == 37
EVENT_USER_1 == 38
EVENT_USER_9 == 46
\* The three events below are used by log.cpp and declared by the
\* application's log_enum_app.h, which log_enum.h includes after
\* EVENT_USER_9: their values are the application's, any distinct values
\* above EVENT_USER_9 do.
EVENT_LOG_ENTRIES_OVERWRITTEN == EVENT_USER_9 + 1
EVENT_LOG_TIME_WRAP == EVENT_USER_9 + 2
EVENT_LOG_START_AGAIN == EVENT_USER_9 + 3
\* errno after a failed fopen(): ENOENT
ENOENT == 2
\* The nsapi_error_t of a socket call that fails or times out, and the
\* value of send() then (NSAPI_ERROR_WOULD_BLOCK).
NSAPI_ERROR == 0 - 3001

\* gpContext->magicWord of an initialised context
MAGIC_WORD == 1193046

\* A null FILE pointer, an unset file name.
NULL == 0 - 1
\* No thread owns the mutex; a null Thread pointer.
NoThread == "none"
\* The threads of the application that call the log.
Threads == {"t1", "t2"}
\* The Thread objects new Thread() can return, in the order it does.
UploadOrder == <<"u1", "u2">>
Uploads == {UploadOrder[i] : i \in 1 .. Len(UploadOrder)}
AllThreads == Threads \cup Uploads

\* Characters are their ASCII codes.
Slash == 47
Digit(d) == 48 + d
\* ".log"
DotLog == <<46, 108, 111, 103>>
\* "/sd", the mount point of the file system
SdPath == <<47, 115, 100>>
\* A path of LOGGING_MAX_LEN_PATH + 1 characters
LongPath == [i \in 1 .. (LOGGING_MAX_LEN_PATH + 1) |-> IF i = 1 THEN Slash ELSE 120]
\* A path of LOGGING_MAX_LEN_PATH characters
MaxPath == [i \in 1 .. LOGGING_MAX_LEN_PATH |-> IF i = 1 THEN Slash ELSE 120]
\* pPath == NULL
NoPath == <<NULL>>

\* The (event, parameter) pairs the application logs.
Inputs == {<<EVENT_USER_0, 5>>, <<EVENT_USER_1, -1>>}
\* The microseconds that may pass between two readings of gLogTime.
Deltas == 0 .. (TimeModulus - 1)
\* The values of numEntries getLog() is called with.
Counts == {0, 1, MAX_NUM_LOG_ENTRIES + 1}
\* The same, with a negative value and one that leaves room for a marker
\* and one entry.
PopCounts == Counts \cup {0 - 1, 2}

(* ------------------------------------------------------------------ *)
(* State                                                                *)
(* ------------------------------------------------------------------ *)

VARIABLES
    pLog,                   \* the entry array: slot -> <<timestamp, event, parameter>>
    pLogNextEmpty,          \* gpContext->pLogNextEmpty, a slot index
    pLogFirstFull,          \* gpContext->pLogFirstFull, a slot index
    numLogItems,            \* gpContext->numLogItems
    logEntriesOverwritten,  \* gpContext->logEntriesOverwritten
    gLastLogTime,
    gLogTimeOffset,
    gLogTime,               \* the Timer: [us |-> last reading, running |-> BOOLEAN]
    gLogMutex,              \* the thread that owns the mutex, or NoThread
    gNumWrites,
    gpFile,                 \* NULL, or the name of the file the handle is open on
    gCurrentLogFileName,    \* NULL (never set), or a file name (a sequence number)
    dir,                    \* the file system: the names of the files that exist
    disk,                   \* the file system: file name -> the bytes of the file
    th,                     \* thread -> its frame
    obs,                    \* what an observer of the calls has recorded
    magicWord,              \* gpContext->magicWord
    version,                \* gpContext->version
    gLogPath,               \* the characters of the saved path
    handles,                \* file name -> the FILEs opened for writing on it, not closed
    gpLogUploadThread,      \* NoThread (NULL), or the Thread object
    gpLoggingServer,        \* <<>> (NULL), or <<the SocketAddress>>
    gpLogFileUploadData,    \* <<>> (NULL), or <<the LogFileUploadData>>
    ul                      \* Thread object -> its state and the locals of the callback

ctxVars == <<pLog, pLogNextEmpty, pLogFirstFull, numLogItems, logEntriesOverwritten>>
headVars == <<magicWord, version>>
timeVars == <<gLastLogTime, gLogTimeOffset, gLogTime>>
fileVars == <<gNumWrites, gpFile, gCurrentLogFileName, gLogPath, handles, dir, disk>>
uploadVars == <<gpLogUploadThread, gpLoggingServer, gpLogFileUploadData, ul>>
vars == <<ctxVars, headVars, timeVars, fileVars, uploadVars, gLogMutex, th, obs>>

Slots == 0 .. (MAX_NUM_LOG_ENTRIES - 1)
InRange(i) == i \in Slots

(* ------------------------------------------------------------------ *)
(* The entry, in memory and on file                                     *)
(* ------------------------------------------------------------------ *)

LogEntry(timestamp, event, parameter) == <<timestamp, event, parameter>>
Timestamp(e) == e[1]
Event(e) == e[2]
Parameter(e) == e[3]

\* A 32 bit value as the four bytes the (little endian) target stores.
Bytes32(v) ==
    <<v % 256, (v \div 256) % 256, (v \div 65536) % 256, (v \div 16777216) % 256>>

\* The unsigned int four bytes hold.
Unsigned32(b) == b[1] + 256 * b[2] + 65536 * b[3] + 16777216 * b[4]

\* The int four bytes hold (two's complement).
Signed32(b) ==
    b[1] + 256 * b[2] + 65536 * b[3]
         + 16777216 * (IF b[4] >= 128 THEN b[4] - 256 ELSE b[4])

EntrySize == 12

\* EntryBytes with the event and the parameter in each other's place.
EntryBytesSwapped(e) ==
    Bytes32(Timestamp(e)) \o Bytes32(Parameter(e)) \o Bytes32(Event(e))

\* fwrite(&entry, sizeof(LogEntry), 1, file): the bytes of the struct.
EntryBytes(e) == Bytes32(Timestamp(e)) \o Bytes32(Event(e)) \o Bytes32(Parameter(e))

\* fread(&fileItem, sizeof(fileItem), 1, pFile) on the bytes at offset k.
EntryAt(bytes, k) ==
    LogEntry(Unsigned32(SubSeq(bytes, k + 1, k + 4)),
             Signed32(SubSeq(bytes, k + 5, k + 8)),
             Signed32(SubSeq(bytes, k + 9, k + 12)))

\* The entries printLog() reads back from a file: whole entries, in order.
ReadBack(bytes) ==
    [i \in 1 .. (Len(bytes) \div EntrySize) |-> EntryAt(bytes, (i - 1) * EntrySize)]

(* ------------------------------------------------------------------ *)
(* What the observer computes from the state                            *)
(* ------------------------------------------------------------------ *)

\* The circular distance from pLogFirstFull to pLogNextEmpty.
Distance ==
    (pLogNextEmpty - pLogFirstFull + MAX_NUM_LOG_ENTRIES) % MAX_NUM_LOG_ENTRIES

\* The unread entries, oldest first (the cursors being in range).
Unread ==
    [i \in 1 .. Distance |-> pLog[(pLogFirstFull + i - 1) % MAX_NUM_LOG_ENTRIES]]

AllIdle == \A p \in Threads : th[p].pc = "idle"

\* The buffer holds nothing and has lost nothing.
IsEmpty ==
    /\ pLogNextEmpty = pLogFirstFull
    /\ numLogItems = 0
    /\ logEntriesOverwritten = 0

\* The bytes of the file gpFile is open on.
CurrentFileBytes == IF gpFile \in DOMAIN disk THEN disk[gpFile] ELSE <<>>

\* The names newLogFile() composes: "%s/%04d.log" with x = 0, 1, ...
FileNames == 0 .. (NumFileNames - 1)

(* ------------------------------------------------------------------ *)
(* The observer                                                         *)
(*                                                                      *)
(* obs records, for the properties, what a caller of the log can see:  *)
(*   owed      entries stored by LOG minus entries handed out by        *)
(*             getLog() or written by writeLog() minus the counts of    *)
(*             the overwritten-markers emitted                          *)
(*   op, arg   the last call made and its argument                      *)
(*   out       the entries that call has stored (LOG, LOGX), returned   *)
(*             (getLog) or written to file (writeLog), in order         *)
(*   pre*      the state when that call was made                        *)
(*   run       the entries stored since the buffer was last empty,      *)
(*             as long as runOk: nothing was popped since and the       *)
(*             timestamps did not decrease                              *)
(*   fault     an entry was stored outside the entry array, or a null   *)
(*             FILE pointer was handed to the C library                 *)
(*   calls     the calls that may still be made (NoLimit: any number)   *)
(*   closing   the state when deinitLog() was last called: whether the  *)
(*             log file was open, its name and length, and the number   *)
(*             of unread entries                                        *)
(*   count     the last counting pass of beginLogFileUpload(): the file *)
(*             gpFile was open on, the files that existed and the files *)
(*             that were counted                                        *)
(*   listed    the files that existed when the upload thread last       *)
(*             opened the directory                                     *)
(*   passes    the directory entries that thread has read since: the    *)
(*             file (NULL for a directory), the file gpFile was open on *)
(*             and whether the entry was taken for upload               *)
(*   removed   the files that thread has removed: whether the end of    *)
(*             the file had been reached and whether the socket had     *)
(*             taken every byte of the file                             *)
(*   failed    a send() of the file being uploaded has failed           *)
(*   resent    and send() was called again for that file afterwards     *)
(*   offsets   with timing on: the sum of the intervals resumeLog() was *)
(*             called with since initLog(), as an unsigned int          *)
(*   raws      the readings of gLogTime of the calls of LOG in progress *)
(*   resume    the last call of resumeLog(): its interval, the reading  *)
(*             of gLogTime when it was made and whether the timer was   *)
(*             stopped by suspendLog() then                             *)
(*   stamped   the entry LOG has stored last: its timestamp, the        *)
(*             reading of gLogTime it was made from, and offsets and    *)
(*             resume at that moment                                    *)
(*   restart   the last call of initLog(): whether the header of the    *)
(*             region matched, and the cursors, the counts and the      *)
(*             unread entries of the region when the call was made      *)
(*   opening   the last call of initLogFile(): whether the path was     *)
(*             short enough, and whether a log file has been created    *)
(*   last      the last call of beginLogFileUpload() or                 *)
(*             stopLogFileUpload() made, prev the one before it         *)
(*   test      what the last call of beginLogFileUpload() has found:    *)
(*             the state of the thread gpLogUploadThread pointed to,    *)
(*             whether the call was rejected as already running,        *)
(*             whether the name of the server was resolved, and whether *)
(*             the thread could not be started                          *)
(* With trace off only owed, fault, calls and what follows closing are  *)
(* kept, with runs off                                                  *)
(* run is not.                                                          *)
(* ------------------------------------------------------------------ *)

MaxRun == MAX_NUM_LOG_ENTRIES + MaxOverwritten

NoLimit == 0 - 1

NoTest == [thread |-> "none", rejected |-> FALSE, resolved |-> TRUE,
           unstarted |-> FALSE]

NoResume == [done |-> FALSE, suspended |-> FALSE, raw |-> 0, interval |-> 0]

NoStamp == [timestamp |-> 0, raw |-> 0, offsets |-> 0, since |-> NoResume]

NoRestart == [warm |-> FALSE, pLogNextEmpty |-> 0, pLogFirstFull |-> 0,
              numLogItems |-> 0, logEntriesOverwritten |-> 0, unread |-> <<>>]

ObsInit(trace, runs, first) ==
    [trace |-> trace, runs |-> runs, calls |-> NoLimit, owed |-> 1,
     op |-> "initLog", arg |-> 0, out |-> <<first>>,
     preOv |-> 0, preItems |-> 0, preUnread |-> <<>>, preOpen |-> FALSE, preFile |-> <<>>,
     preLast |-> 0,
     preRun |-> <<>>, preRunOk |-> TRUE,
     run |-> IF runs THEN <<first>> ELSE <<>>, runOk |-> runs, fault |-> FALSE,
     closing |-> [open |-> FALSE, unread |-> 0, bytes |-> 0, name |-> NULL],
     count |-> [open |-> NULL, files |-> {}, names |-> {}],
     listed |-> {}, passes |-> {}, removed |-> {}, failed |-> FALSE, resent |-> FALSE,
     timing |-> FALSE, offsets |-> 0, raws |-> <<>>, resume |-> NoResume,
     stamped |-> NoStamp,
     restart |-> NoRestart, opening |-> [good |-> TRUE, created |-> FALSE],
     last |-> "none", prev |-> "none", test |-> NoTest]

\* A call of `name` with argument `arg` is made: the observer notes the
\* state the properties of that call speak of.
ObsCall(o, name, arg) ==
    LET pops == name \in {"getLog", "writeLog"}
        calls == IF o.calls > 0 THEN o.calls - 1 ELSE o.calls
        closing == IF name = "deinitLog"
                   THEN [open |-> gpFile # NULL, unread |-> Distance,
                         bytes |-> Len(CurrentFileBytes), name |-> gpFile]
                   ELSE o.closing
        upload == name \in {"beginLogFileUpload", "stopLogFileUpload"}
        last == IF upload THEN name ELSE o.last
        prev == IF upload THEN o.last ELSE o.prev
        test == IF name = "beginLogFileUpload" THEN NoTest ELSE o.test
    IN  IF o.trace
        THEN [o EXCEPT !.calls = calls, !.op = name, !.arg = arg, !.out = <<>>,
                       !.closing = closing, !.last = last, !.prev = prev,
                       !.test = test,
                       !.preOv = IF pops THEN logEntriesOverwritten ELSE 0,
                       !.preItems = IF name = "getLog" THEN numLogItems ELSE 0,
                       !.preUnread = IF pops THEN Unread ELSE <<>>,
                       !.preOpen = name = "writeLog" /\ gpFile # NULL,
                       !.preFile = IF name = "writeLog" THEN CurrentFileBytes ELSE <<>>,
                       !.preLast = IF name \in {"LOG", "LOGX"} THEN gLastLogTime ELSE 0,
                       !.preRun = IF name = "getLog" THEN o.run ELSE <<>>,
                       !.preRunOk = name = "getLog" /\ o.runOk]
        ELSE [o EXCEPT !.calls = calls, !.closing = closing, !.last = last,
                       !.prev = prev, !.test = test]

\* LOG has stored entry e.
ObsStore(o, e, inArray) ==
    LET ok == /\ o.runOk
              /\ Len(o.run) < MaxRun
              /\ Event(e) # EVENT_LOG_TIME_WRAP
              /\ (o.run # <<>> => Timestamp(e) >= Timestamp(o.run[Len(o.run)]))
    IN  IF o.trace
        THEN [o EXCEPT !.owed = @ + 1, !.out = Append(@, e),
                       !.runOk = ok, !.run = IF ok THEN Append(@, e) ELSE <<>>,
                       !.fault = @ \/ ~inArray]
        ELSE [o EXCEPT !.owed = @ + 1, !.fault = @ \/ ~inArray]

\* getLog() or writeLog() has handed out entry e of the buffer.
ObsDeliver(o, e) ==
    IF o.trace
    THEN [o EXCEPT !.owed = @ - 1, !.out = Append(@, e), !.runOk = FALSE, !.run = <<>>]
    ELSE [o EXCEPT !.owed = @ - 1]

\* getLog() or writeLog() has emitted the overwritten-marker m.
ObsMarker(o, m) ==
    IF o.trace
    THEN [o EXCEPT !.owed = @ - Parameter(m), !.out = Append(@, m),
                   !.runOk = FALSE, !.run = <<>>]
    ELSE [o EXCEPT !.owed = @ - Parameter(m)]

\* getLog() or writeLog() returns: a new run starts when the buffer is empty.
ObsPopped(o) ==
    IF o.runs /\ ~o.runOk /\ IsEmpty
    THEN [o EXCEPT !.runOk = TRUE, !.run = <<>>]
    ELSE o

ObsFault(o) == [o EXCEPT !.fault = TRUE]

\* LOG has read gLogTime as us.
ObsRead(o, us) == IF o.timing THEN [o EXCEPT !.raws = Append(@, us)] ELSE o

\* LOG has stored entry e, made from the last reading that is not used yet.
ObsStamp(o, e) ==
    IF o.timing /\ o.raws # <<>>
    THEN [o EXCEPT !.raws = SubSeq(@, 1, Len(@) - 1),
                   !.stamped = [timestamp |-> Timestamp(e), raw |-> o.raws[Len(o.raws)],
                                offsets |-> o.offsets, since |-> o.resume]]
    ELSE o

\* resumeLog(interval) is called.
ObsResume(o, interval) ==
    IF o.timing
    THEN [o EXCEPT !.offsets = (@ + interval) % TimeModulus,
                   !.resume = [done |-> TRUE, suspended |-> ~gLogTime.running,
                               raw |-> gLogTime.us,
                               interval |-> interval]]
    ELSE o

\* initLog() starts the timer again.
ObsRestart(o) ==
    IF o.timing THEN [o EXCEPT !.offsets = 0, !.resume = NoResume] ELSE o

\* A call may still be made.
MayCall == obs.calls # 0

\* The application may log another entry.
MayAppend == logEntriesOverwritten < MaxOverwritten /\ MayCall

(* ------------------------------------------------------------------ *)
(* Threads, calls and returns                                           *)
(* ------------------------------------------------------------------ *)

IdleFrame ==
    [pc |-> "idle", op |-> "none", event |-> 0, parameter |-> 0, timeStamp |-> 0,
     t |-> FALSE, stack |-> <<>>, pItem |-> 0, itemCount |-> 0, numEntries |-> 0,
     pFile |-> NULL, loggingToFile |-> FALSE, x |-> 0, ret |-> 0, busy |-> FALSE]

\* The frame of a thread that enters `op` at `pc`.
Enter(op, pc) == [IdleFrame EXCEPT !.op = op, !.pc = pc]

\* The frame f calling LOG(event, parameter), to go on at `ret` afterwards.
CallLog(f, event, parameter, ret) ==
    [f EXCEPT !.stack = Append(@, [ret |-> ret, event |-> f.event,
                                   parameter |-> f.parameter,
                                   timeStamp |-> f.timeStamp]),
              !.event = event, !.parameter = parameter, !.pc = "log_enter"]

\* The frame f returning from LOG: back in the caller, or the thread is idle.
ReturnFromLog(f) ==
    IF f.stack = <<>>
    THEN [IdleFrame EXCEPT !.op = f.op]
    ELSE LET top == f.stack[Len(f.stack)]
         IN  [f EXCEPT !.stack = SubSeq(@, 1, Len(@) - 1),
                       !.event = top.event, !.parameter = top.parameter,
                       !.timeStamp = top.timeStamp, !.pc = top.ret]

\* The frame f returning from a public function with value `ret`: to the
\* application, or to the function of the library that called it.
Return(f, ret, busy) ==
    IF f.stack = <<>>
    THEN [IdleFrame EXCEPT !.op = f.op, !.ret = ret, !.busy = busy]
    ELSE [f EXCEPT !.stack = SubSeq(@, 1, Len(@) - 1), !.busy = busy,
                   !.pc = f.stack[Len(f.stack)].ret]

\* The frame f calling a function of the library that starts at `pc`, to
\* go on at `ret` afterwards.
CallFunction(f, pc, ret) ==
    [f EXCEPT !.stack = Append(@, [ret |-> ret, event |-> f.event,
                                   parameter |-> f.parameter,
                                   timeStamp |-> f.timeStamp]),
              !.pc = pc]

(* ------------------------------------------------------------------ *)
(* The Thread objects and the locals of logFileUploadCallback()         *)
(* ------------------------------------------------------------------ *)

\* A Thread object that does not exist: state is "none" (no such object),
\* "created" (new Thread() has returned it), "running" (the callback has
\* been started) or "finished" (the callback has returned).  entries is
\* what pDir->read() has still to return, pos the position of pFile, eof
\* its end-of-file indicator, unsent the bytes of pReadBuffer from
\* sendCount on, wire the bytes the socket has taken for this file, sock
\* the state of *pTcpSock ("closed", "open" or "connected").
NoUploadThread ==
    [state |-> "none", entries |-> <<>>, x |-> 0, y |-> 0, z |-> 0, size |-> 0,
     sendCount |-> 0, sendTotalThisFile |-> 0, d_name |-> <<>>,
     d_type |-> "DT_UNKNOWN",
     pFile |-> NULL, pos |-> 0, eof |-> FALSE, unsent |-> <<>>, wire |-> <<>>,
     sock |-> "closed"]

\* gpLoggingServer, gpLogUploadThread and gpLogFileUploadData are NULL.
NoUpload ==
    /\ gpLogUploadThread = NoThread
    /\ gpLoggingServer = <<>>
    /\ gpLogFileUploadData = <<>>
    /\ ul = [u \in Uploads |-> NoUploadThread]

(* ------------------------------------------------------------------ *)
(* initLog(pBuffer) on an uninitialised buffer: the initial state       *)
(* ------------------------------------------------------------------ *)

\* The entry LOG(EVENT_LOG_START, LOG_VERSION) stores at the end of initLog().
StartEntry == LogEntry(0, EVENT_LOG_START, LOG_VERSION)

\* initLog() clears the LogContext and not the entry array behind it: the
\* slots LOG has not stored into hold what the memory held before.
Uninitialised == {LogEntry(0, 0, 0), LogEntry(TimeModulus - 1, EVENT_USER_9, 0 - 1)}

\* (MAX_NUM_LOG_ENTRIES > 1: the first LOG leaves pLogNextEmpty on slot 1.)
InitWithObs(o) ==
    /\ \E junk \in Uninitialised :
         pLog = [i \in Slots |-> IF i = 0 THEN StartEntry ELSE junk]
    /\ pLogNextEmpty = 1
    /\ pLogFirstFull = 0
    /\ numLogItems = 1
    /\ logEntriesOverwritten = 0
    /\ gLastLogTime = 0
    /\ gLogTimeOffset = 0
    /\ gLogTime = [us |-> 0, running |-> TRUE]
    /\ gLogMutex = NoThread
    /\ gNumWrites = 0
    /\ gpFile = NULL
    /\ gCurrentLogFileName = NULL
    /\ dir = {}
    /\ disk = [x \in FileNames |-> <<>>]
    /\ th = [p \in AllThreads |-> IdleFrame]
    /\ obs = o
    /\ magicWord = MAGIC_WORD
    /\ version = LOG_VERSION
    /\ gLogPath = <<>>
    /\ handles = [x \in FileNames |-> 0]
    /\ NoUpload

\* `calls` calls are made from there.
InitWithCalls(trace, runs, calls) ==
    InitWithObs([ObsInit(trace, runs, StartEntry) EXCEPT !.calls = calls])

\* Any number of calls is made from there.
InitWith(trace, runs) == InitWithCalls(trace, runs, NoLimit)

\* MaxCalls calls are made from there, the observer keeping owed, fault
\* and what the calls of initLog() find.
InitWarm == InitWithCalls(FALSE, FALSE, MaxCalls)

\* The same, the observer keeping the readings of gLogTime as well.
InitTiming ==
    InitWithObs([ObsInit(FALSE, FALSE, StartEntry) EXCEPT !.calls = MaxCalls,
                                                          !.timing = TRUE])

\* The entry newLogFile() logs when it has created the file.
FileOpenEntry == LogEntry(0, EVENT_LOG_FILE_OPEN, 0)

\* The state after initLog(pBuffer) and initLogFile(pPath) with a good path
\* on an empty file system, the timer still reading 0: the file 0000.log is
\* open and empty, and the buffer holds the two entries logged so far
\* (MAX_NUM_LOG_ENTRIES > 2).  The observer keeps owed and fault only, and
\* MaxCalls calls are made from here.
InitOpen ==
    /\ \E junk \in Uninitialised :
         pLog = [i \in Slots |-> CASE i = 0 -> StartEntry
                                   [] i = 1 -> FileOpenEntry
                                   [] OTHER -> junk]
    /\ pLogNextEmpty = 2
    /\ pLogFirstFull = 0
    /\ numLogItems = 2
    /\ logEntriesOverwritten = 0
    /\ gLastLogTime = 0
    /\ gLogTimeOffset = 0
    /\ gLogTime = [us |-> 0, running |-> TRUE]
    /\ gLogMutex = NoThread
    /\ gNumWrites = 0
    /\ gpFile = 0
    /\ gCurrentLogFileName = 0
    /\ dir = {0}
    /\ disk = [x \in FileNames |-> <<>>]
    /\ th = [p \in AllThreads |-> IdleFrame]
    /\ obs = [ObsInit(FALSE, FALSE, StartEntry) EXCEPT
                  !.calls = MaxCalls, !.owed = 2, !.out = <<>>]
    /\ magicWord = MAGIC_WORD
    /\ version = LOG_VERSION
    /\ gLogPath = SdPath
    /\ handles = [x \in FileNames |-> IF x = 0 THEN 1 ELSE 0]
    /\ NoUpload

\* What an earlier run has left in a log file.
OldLog == EntryBytes(StartEntry) \o EntryBytes(FileOpenEntry)

\* The state after initLog(pBuffer), initLogFile(pPath) and writeLog() on
\* a file system that holds the log files of earlier runs: the files
\* before the last hold OldLog and are closed, the last one is the file
\* newLogFile() has created, open, and holds the two entries logged so
\* far; the buffer is empty.  `calls` calls are made from here.
InitUploadWith(calls) ==
    /\ \E junk \in Uninitialised :
         pLog = [i \in Slots |-> CASE i = 0 -> StartEntry
                                   [] i = 1 -> FileOpenEntry
                                   [] OTHER -> junk]
    /\ pLogNextEmpty = 2
    /\ pLogFirstFull = 2
    /\ numLogItems = 0
    /\ logEntriesOverwritten = 0
    /\ gLastLogTime = 0
    /\ gLogTimeOffset = 0
    /\ gLogTime = [us |-> 0, running |-> TRUE]
    /\ gLogMutex = NoThread
    /\ gNumWrites = 1
    /\ gpFile = NumFileNames - 1
    /\ gCurrentLogFileName = NumFileNames - 1
    /\ dir = FileNames
    /\ disk = [x \in FileNames |-> OldLog]
    /\ th = [p \in AllThreads |-> IdleFrame]
    /\ obs = [ObsInit(FALSE, FALSE, StartEntry) EXCEPT
                  !.calls = calls, !.owed = 0, !.out = <<>>]
    /\ magicWord = MAGIC_WORD
    /\ version = LOG_VERSION
    /\ gLogPath = SdPath
    /\ handles = [x \in FileNames |-> IF x = NumFileNames - 1 THEN 1 ELSE 0]
    /\ NoUpload

InitUpload == InitUploadWith(MaxUploadCalls)

\* The same state with one call more to make.
InitRestart == InitUploadWith(MaxUploadCalls + 1)

(* ------------------------------------------------------------------ *)
(* initLog(pBuffer) again, src/log.cpp:324-351                          *)
(* ------------------------------------------------------------------ *)

\* What the header of the region handed to initLog() may hold: what the
\* last run has left there, another magic word, another version.
Regions == {"retained", "magic", "version"}

\* The application calls initLog(pBuffer): gpContext = pBuffer.
CallInitLog(p, regions) ==
    /\ th[p].pc = "idle"
    /\ MayAppend
    /\ \E region \in regions :
         /\ magicWord' = IF region = "magic" THEN 0 ELSE magicWord
         /\ version' = IF region = "version" THEN LOG_VERSION + 1 ELSE version
         /\ obs' = [ObsCall(obs, "initLog", 0) EXCEPT
                       !.restart = [warm |-> region = "retained",
                                    pLogNextEmpty |-> pLogNextEmpty,
                                    pLogFirstFull |-> pLogFirstFull,
                                    numLogItems |-> numLogItems,
                                    logEntriesOverwritten |-> logEntriesOverwritten,
                                    unread |-> Unread]]
    /\ th' = [th EXCEPT ![p] = Enter("initLog", "initlog_context")]
    /\ UNCHANGED <<ctxVars, timeVars, fileVars, uploadVars, gLogMutex>>

\* InitLogContext initialising the context whatever the region holds.
InitLogContextFresh(p) ==
    /\ th[p].pc = "initlog_context"
    /\ pLogNextEmpty' = 0
    /\ pLogFirstFull' = 0
    /\ numLogItems' = 0
    /\ logEntriesOverwritten' = 0
    /\ magicWord' = MAGIC_WORD
    /\ version' = LOG_VERSION
    /\ th' = [th EXCEPT ![p].t = TRUE, ![p].pc = "initlog_timer"]
    /\ UNCHANGED <<pLog, timeVars, fileVars, uploadVars, gLogMutex, obs>>

\* if ((gpContext->magicWord != 0x123456) || (gpContext->version !=
\* LOG_VERSION)) { freshStart = true; memset(gpContext, 0, ...);
\* ...->pLogNextEmpty = ...->pLog; ...->pLogFirstFull = ...->pLog;
\* ...->numLogItems = 0; ...->logEntriesOverwritten = 0;
\* ...->magicWord = 0x123456; }   The entry array is not cleared.
InitLogContext(p) ==
    /\ th[p].pc = "initlog_context"
    /\ IF magicWord # MAGIC_WORD \/ version # LOG_VERSION
       THEN /\ pLogNextEmpty' = 0
            /\ pLogFirstFull' = 0
            /\ numLogItems' = 0
            /\ logEntriesOverwritten' = 0
            /\ magicWord' = MAGIC_WORD
            /\ version' = LOG_VERSION
            /\ th' = [th EXCEPT ![p].t = TRUE, ![p].pc = "initlog_timer"]
       ELSE /\ UNCHANGED <<pLogNextEmpty, pLogFirstFull, numLogItems,
                           logEntriesOverwritten, headVars>>
            /\ th' = [th EXCEPT ![p].t = FALSE, ![p].pc = "initlog_timer"]
    /\ UNCHANGED <<pLog, timeVars, fileVars, uploadVars, gLogMutex, obs>>

\* gLastLogTime = 0; gLogTime.reset(); gLogTime.start(); gLogTimeOffset = 0;
\* if (freshStart) LOG(EVENT_LOG_START, LOG_VERSION);
\* else LOG(EVENT_LOG_START_AGAIN, LOG_VERSION);
InitLogTimer(p) ==
    /\ th[p].pc = "initlog_timer"
    /\ gLastLogTime' = 0
    /\ gLogTime' = [us |-> 0, running |-> TRUE]
    /\ gLogTimeOffset' = 0
    /\ th' = [th EXCEPT ![p] = CallLog(th[p], IF th[p].t THEN EVENT_LOG_START
                                                         ELSE EVENT_LOG_START_AGAIN,
                                       LOG_VERSION, "initlog_return")]
    /\ obs' = ObsRestart(obs)
    /\ UNCHANGED <<ctxVars, headVars, fileVars, uploadVars, gLogMutex>>

\* initLog() returns.
InitLogReturn(p) ==
    /\ th[p].pc = "initlog_return"
    /\ th' = [th EXCEPT ![p] = Return(th[p], 0, FALSE)]
    /\ UNCHANGED <<ctxVars, headVars, timeVars, fileVars, uploadVars, gLogMutex, obs>>

(* ------------------------------------------------------------------ *)
(* suspendLog(), resumeLog(intervalUSeconds), src/log.cpp:352-364       *)
(* ------------------------------------------------------------------ *)

\* The intervals resumeLog() is called with.
Intervals == {0, 1, TimeModulus - 1}

\* gLogTime.stop();
SuspendLog(p) ==
    /\ th[p].pc = "idle"
    /\ MayCall
    /\ gLogTime' = [gLogTime EXCEPT !.running = FALSE]
    /\ th' = [th EXCEPT ![p] = [IdleFrame EXCEPT !.op = "suspendLog"]]
    /\ obs' = ObsCall(obs, "suspendLog", 0)
    /\ UNCHANGED <<ctxVars, headVars, gLastLogTime, gLogTimeOffset, fileVars,
                   uploadVars, gLogMutex>>

\* ResumeLog keeping the last interval only.
ResumeLogLast(p, intervals) ==
    /\ th[p].pc = "idle"
    /\ MayCall
    /\ \E intervalUSeconds \in intervals :
         /\ gLogTimeOffset' = intervalUSeconds
         /\ obs' = ObsResume(ObsCall(obs, "resumeLog", intervalUSeconds),
                             intervalUSeconds)
    /\ gLogTime' = [gLogTime EXCEPT !.running = TRUE]
    /\ th' = [th EXCEPT ![p] = [IdleFrame EXCEPT !.op = "resumeLog"]]
    /\ UNCHANGED <<ctxVars, headVars, gLastLogTime, fileVars, uploadVars, gLogMutex>>

\* gLogTimeOffset += intervalUSeconds; gLogTime.start();
ResumeLog(p, intervals) ==
    /\ th[p].pc = "idle"
    /\ MayCall
    /\ \E intervalUSeconds \in intervals :
         /\ gLogTimeOffset' = (gLogTimeOffset + intervalUSeconds) % TimeModulus
         /\ obs' = ObsResume(ObsCall(obs, "resumeLog", intervalUSeconds),
                             intervalUSeconds)
    /\ gLogTime' = [gLogTime EXCEPT !.running = TRUE]
    /\ th' = [th EXCEPT ![p] = [IdleFrame EXCEPT !.op = "resumeLog"]]
    /\ UNCHANGED <<ctxVars, headVars, gLastLogTime, fileVars, uploadVars, gLogMutex>>

(* ------------------------------------------------------------------ *)
(* LOG(event, parameter), src/log.cpp:563-604                           *)
(* ------------------------------------------------------------------ *)

\* The application calls LOG(event, parameter).
CallLOG(p, ins) ==
    /\ th[p].pc = "idle"
    /\ MayAppend
    /\ \E in \in ins :
         /\ th' = [th EXCEPT ![p] = [Enter("LOG", "log_enter") EXCEPT
                                        !.event = in[1], !.parameter = in[2]]]
         /\ obs' = ObsCall(obs, "LOG", 0)
    /\ UNCHANGED <<headVars, uploadVars>>
    /\ UNCHANGED <<ctxVars, timeVars, fileVars, gLogMutex>>

\* timeStamp = ((unsigned int) gLogTime.read_us()) + gLogTimeOffset, and the
\* test timeStamp < gLastLogTime.  d microseconds have passed on the timer
\* since it was last read (none when it is stopped).
LogEnter(p, deltas) ==
    /\ th[p].pc = "log_enter"
    /\ \E d \in (IF gLogTime.running THEN deltas ELSE {0}) :
         LET us == (gLogTime.us + d) % TimeModulus
             timeStamp == (us + gLogTimeOffset) % TimeModulus
         IN  /\ gLogTime' = [gLogTime EXCEPT !.us = us]
             /\ th' = [th EXCEPT ![p].timeStamp = timeStamp,
                                 ![p].pc = IF timeStamp < gLastLogTime
                                           THEN "log_wrap" ELSE "log_setlast"]
             /\ obs' = ObsRead(obs, us)
    /\ UNCHANGED <<headVars, uploadVars>>
    /\ UNCHANGED <<ctxVars, gLastLogTime, gLogTimeOffset, fileVars, gLogMutex>>

\* gLastLogTime = timeStamp; LOG(EVENT_LOG_TIME_WRAP, timeStamp);
LogWrap(p) ==
    /\ th[p].pc = "log_wrap"
    /\ gLastLogTime' = th[p].timeStamp
    /\ th' = [th EXCEPT ![p] = CallLog(th[p], EVENT_LOG_TIME_WRAP,
                                       th[p].timeStamp, "log_setlast")]
    /\ UNCHANGED <<headVars, uploadVars>>
    /\ UNCHANGED <<ctxVars, gLogTimeOffset, gLogTime, fileVars, gLogMutex, obs>>

\* gLastLogTime = timeStamp;
LogSetLast(p) ==
    /\ th[p].pc = "log_setlast"
    /\ gLastLogTime' = th[p].timeStamp
    /\ th' = [th EXCEPT ![p].pc = "log_store"]
    /\ UNCHANGED <<headVars, uploadVars>>
    /\ UNCHANGED <<ctxVars, gLogTimeOffset, gLogTime, fileVars, gLogMutex, obs>>

\* gpContext->pLogNextEmpty->timestamp = timeStamp; ->event = event;
\* ->parameter = parameter.  A pLogNextEmpty beyond the array stores into
\* the memory after it, which is not part of this state.
LogStore(p) ==
    /\ th[p].pc = "log_store"
    /\ LET e == LogEntry(th[p].timeStamp, th[p].event, th[p].parameter)
       IN  /\ pLog' = IF InRange(pLogNextEmpty)
                      THEN [pLog EXCEPT ![pLogNextEmpty] = e] ELSE pLog
           /\ obs' = ObsStamp(ObsStore(obs, e, InRange(pLogNextEmpty)), e)
    /\ th' = [th EXCEPT ![p].pc = "log_advtest"]
    /\ UNCHANGED <<headVars, uploadVars>>
    /\ UNCHANGED <<pLogNextEmpty, pLogFirstFull, numLogItems, logEntriesOverwritten,
                   timeVars, fileVars, gLogMutex>>

\* if (gpContext->pLogNextEmpty < gpContext->pLog + MAX_NUM_LOG_ENTRIES - 1)
LogAdvTest(p) ==
    /\ th[p].pc = "log_advtest"
    /\ th' = [th EXCEPT ![p].t = (pLogNextEmpty < MAX_NUM_LOG_ENTRIES - 1),
                        ![p].pc = "log_adv"]
    /\ UNCHANGED <<headVars, uploadVars>>
    /\ UNCHANGED <<ctxVars, timeVars, fileVars, gLogMutex, obs>>

\* gpContext->pLogNextEmpty++; else gpContext->pLogNextEmpty = gpContext->pLog;
LogAdv(p) ==
    /\ th[p].pc = "log_adv"
    /\ pLogNextEmpty' = IF th[p].t THEN pLogNextEmpty + 1 ELSE 0
    /\ th' = [th EXCEPT ![p].pc = "log_cmp"]
    /\ UNCHANGED <<headVars, uploadVars>>
    /\ UNCHANGED <<pLog, pLogFirstFull, numLogItems, logEntriesOverwritten,
                   timeVars, fileVars, gLogMutex, obs>>

\* if (gpContext->pLogNextEmpty == gpContext->pLogFirstFull)
LogCmp(p) ==
    /\ th[p].pc = "log_cmp"
    /\ th' = [th EXCEPT ![p].pc = IF pLogNextEmpty = pLogFirstFull
                                  THEN "log_firsttest" ELSE "log_count"]
    /\ UNCHANGED <<headVars, uploadVars>>
    /\ UNCHANGED <<ctxVars, timeVars, fileVars, gLogMutex, obs>>

\* if (gpContext->pLogFirstFull < gpContext->pLog + MAX_NUM_LOG_ENTRIES - 1)
LogFirstTest(p) ==
    /\ th[p].pc = "log_firsttest"
    /\ th' = [th EXCEPT ![p].t = (pLogFirstFull < MAX_NUM_LOG_ENTRIES - 1),
                        ![p].pc = "log_firstadv"]
    /\ UNCHANGED <<headVars, uploadVars>>
    /\ UNCHANGED <<ctxVars, timeVars, fileVars, gLogMutex, obs>>

\* gpContext->pLogFirstFull++; else gpContext->pLogFirstFull = gpContext->pLog;
LogFirstAdv(p) ==
    /\ th[p].pc = "log_firstadv"
    /\ pLogFirstFull' = IF th[p].t THEN pLogFirstFull + 1 ELSE 0
    /\ th' = [th EXCEPT ![p].pc = "log_ovinc"]
    /\ UNCHANGED <<headVars, uploadVars>>
    /\ UNCHANGED <<pLog, pLogNextEmpty, numLogItems, logEntriesOverwritten,
                   timeVars, fileVars, gLogMutex, obs>>

\* LogOvInc with the entry that overwrote another counted as one more
\* unread entry (numLogItems++ moved out of the else branch).
LogOvIncCounting(p) ==
    /\ th[p].pc = "log_ovinc"
    /\ logEntriesOverwritten' = logEntriesOverwritten + 1
    /\ numLogItems' = numLogItems + 1
    /\ th' = [th EXCEPT ![p] = ReturnFromLog(th[p])]
    /\ UNCHANGED <<headVars, uploadVars>>
    /\ UNCHANGED <<pLog, pLogNextEmpty, pLogFirstFull,
                   timeVars, fileVars, gLogMutex, obs>>

\* gpContext->logEntriesOverwritten++; and LOG returns.
LogOvInc(p) ==
    /\ th[p].pc = "log_ovinc"
    /\ logEntriesOverwritten' = logEntriesOverwritten + 1
    /\ th' = [th EXCEPT ![p] = ReturnFromLog(th[p])]
    /\ UNCHANGED <<headVars, uploadVars>>
    /\ UNCHANGED <<pLog, pLogNextEmpty, pLogFirstFull, numLogItems,
                   timeVars, fileVars, gLogMutex, obs>>

\* gpContext->numLogItems++; and LOG returns.
LogCount(p) ==
    /\ th[p].pc = "log_count"
    /\ numLogItems' = numLogItems + 1
    /\ th' = [th EXCEPT ![p] = ReturnFromLog(th[p])]
    /\ UNCHANGED <<headVars, uploadVars>>
    /\ UNCHANGED <<pLog, pLogNextEmpty, pLogFirstFull, logEntriesOverwritten,
                   timeVars, fileVars, gLogMutex, obs>>

(* ------------------------------------------------------------------ *)
(* LOGX(event, parameter), src/log.cpp:609-655: gLogMutex.lock(), the   *)
(* statements of LOG (lines 614-652 repeat lines 565-603), unlock()     *)
(* ------------------------------------------------------------------ *)

\* The application calls LOGX(event, parameter).
CallLOGX(p, ins) ==
    /\ th[p].pc = "idle"
    /\ MayAppend
    /\ \E in \in ins :
         /\ th' = [th EXCEPT ![p] = [Enter("LOGX", "logx_lock") EXCEPT
                                        !.event = in[1], !.parameter = in[2]]]
         /\ obs' = ObsCall(obs, "LOGX", 0)
    /\ UNCHANGED <<headVars, uploadVars>>
    /\ UNCHANGED <<ctxVars, timeVars, fileVars, gLogMutex>>

\* gLogMutex.lock(): waits for the mutex, then the body of LOG runs.
LogxLock(p) ==
    /\ th[p].pc = "logx_lock"
    /\ gLogMutex = NoThread
    /\ gLogMutex' = p
    /\ th' = [th EXCEPT ![p] = CallLog(th[p], th[p].event, th[p].parameter,
                                       "logx_unlock")]
    /\ UNCHANGED <<headVars, uploadVars>>
    /\ UNCHANGED <<ctxVars, timeVars, fileVars, obs>>

\* gLogMutex.unlock(); and LOGX returns.
LogxUnlock(p) ==
    /\ th[p].pc = "logx_unlock"
    /\ gLogMutex' = NoThread
    /\ th' = [th EXCEPT ![p] = Return(th[p], 0, FALSE)]
    /\ UNCHANGED <<headVars, uploadVars>>
    /\ UNCHANGED <<ctxVars, timeVars, fileVars, obs>>

(* ------------------------------------------------------------------ *)
(* getLog(pEntries, numEntries), src/log.cpp:367-405                    *)
(* ------------------------------------------------------------------ *)

\* The application calls getLog(pEntries, numEntries).
CallGetLog(p, counts) ==
    /\ th[p].pc = "idle"
    /\ MayCall
    /\ \E numEntries \in counts :
         /\ th' = [th EXCEPT ![p] = [Enter("getLog", "getlog_lock") EXCEPT
                                        !.numEntries = numEntries]]
         /\ obs' = ObsCall(obs, "getLog", numEntries)
    /\ UNCHANGED <<headVars, uploadVars>>
    /\ UNCHANGED <<ctxVars, timeVars, fileVars, gLogMutex>>

\* gLogMutex.lock();
GetLogLock(p) ==
    /\ th[p].pc = "getlog_lock"
    /\ gLogMutex = NoThread
    /\ gLogMutex' = p
    /\ th' = [th EXCEPT ![p].pc = "getlog_init"]
    /\ UNCHANGED <<headVars, uploadVars>>
    /\ UNCHANGED <<ctxVars, timeVars, fileVars, obs>>

\* itemCount = 0; pItem = gpContext->pLogFirstFull;
GetLogInit(p) ==
    /\ th[p].pc = "getlog_init"
    /\ th' = [th EXCEPT ![p].itemCount = 0, ![p].pItem = pLogFirstFull,
                        ![p].pc = "getlog_test"]
    /\ UNCHANGED <<headVars, uploadVars>>
    /\ UNCHANGED <<ctxVars, timeVars, fileVars, gLogMutex, obs>>

\* while ((pItem != gpContext->pLogNextEmpty) && (itemCount < numEntries))
GetLogTest(p) ==
    /\ th[p].pc = "getlog_test"
    /\ th' = [th EXCEPT ![p].pc =
                 IF th[p].pItem # pLogNextEmpty /\ th[p].itemCount < th[p].numEntries
                 THEN "getlog_ovtest" ELSE "getlog_unlock"]
    /\ UNCHANGED <<headVars, uploadVars>>
    /\ UNCHANGED <<ctxVars, timeVars, fileVars, gLogMutex, obs>>

\* if (gpContext->logEntriesOverwritten > 0)
GetLogOvTest(p) ==
    /\ th[p].pc = "getlog_ovtest"
    /\ th' = [th EXCEPT ![p].pc = IF logEntriesOverwritten > 0
                                  THEN "getlog_marker" ELSE "getlog_copy"]
    /\ UNCHANGED <<headVars, uploadVars>>
    /\ UNCHANGED <<ctxVars, timeVars, fileVars, gLogMutex, obs>>

\* The entry at pItem; what lies beyond the array is not part of this state
\* and reads as any entry of the application.
EntriesAt(i) ==
    IF InRange(i) THEN {pLog[i]} ELSE {LogEntry(0, in[1], in[2]) : in \in Inputs}

\* LogEntry insert = {pItem->timestamp, EVENT_LOG_ENTRIES_OVERWRITTEN,
\* (int) gpContext->logEntriesOverwritten}; memcpy(pEntries, &insert, ...);
\* itemCount++; pEntries++;
GetLogMarker(p) ==
    /\ th[p].pc = "getlog_marker"
    /\ \E e \in EntriesAt(th[p].pItem) :
         obs' = ObsMarker(obs, LogEntry(Timestamp(e), EVENT_LOG_ENTRIES_OVERWRITTEN,
                                        logEntriesOverwritten))
    /\ th' = [th EXCEPT ![p].itemCount = @ + 1, ![p].pc = "getlog_ovreset"]
    /\ UNCHANGED <<headVars, uploadVars>>
    /\ UNCHANGED <<ctxVars, timeVars, fileVars, gLogMutex>>

\* GetLogOvReset without the test of itemCount.
GetLogOvResetUntested(p) ==
    /\ th[p].pc = "getlog_ovreset"
    /\ logEntriesOverwritten' = 0
    /\ th' = [th EXCEPT ![p].pc = "getlog_copy"]
    /\ UNCHANGED <<headVars, uploadVars>>
    /\ UNCHANGED <<pLog, pLogNextEmpty, pLogFirstFull, numLogItems,
                   timeVars, fileVars, gLogMutex, obs>>

\* GetLogOvReset without the reset of logEntriesOverwritten.
GetLogOvResetForgotten(p) ==
    /\ th[p].pc = "getlog_ovreset"
    /\ th' = [th EXCEPT ![p].pc = IF th[p].itemCount < th[p].numEntries
                                  THEN "getlog_copy" ELSE "getlog_test"]
    /\ UNCHANGED <<headVars, uploadVars>>
    /\ UNCHANGED <<ctxVars, timeVars, fileVars, gLogMutex, obs>>

\* gpContext->logEntriesOverwritten = 0; and the test if (itemCount < numEntries)
GetLogOvReset(p) ==
    /\ th[p].pc = "getlog_ovreset"
    /\ logEntriesOverwritten' = 0
    /\ th' = [th EXCEPT ![p].pc = IF th[p].itemCount < th[p].numEntries
                                  THEN "getlog_copy" ELSE "getlog_test"]
    /\ UNCHANGED <<headVars, uploadVars>>
    /\ UNCHANGED <<pLog, pLogNextEmpty, pLogFirstFull, numLogItems,
                   timeVars, fileVars, gLogMutex, obs>>

\* memcpy(pEntries, pItem, sizeof(*pEntries)); itemCount++; pEntries++; pItem++;
GetLogCopy(p) ==
    /\ th[p].pc = "getlog_copy"
    /\ \E e \in EntriesAt(th[p].pItem) : obs' = ObsDeliver(obs, e)
    /\ th' = [th EXCEPT ![p].itemCount = @ + 1, ![p].pItem = @ + 1,
                        ![p].pc = "getlog_dec"]
    /\ UNCHANGED <<headVars, uploadVars>>
    /\ UNCHANGED <<ctxVars, timeVars, fileVars, gLogMutex>>

\* if (gpContext->numLogItems > 0) gpContext->numLogItems--;
GetLogDec(p) ==
    /\ th[p].pc = "getlog_dec"
    /\ numLogItems' = IF numLogItems > 0 THEN numLogItems - 1 ELSE numLogItems
    /\ th' = [th EXCEPT ![p].pc = "getlog_first"]
    /\ UNCHANGED <<headVars, uploadVars>>
    /\ UNCHANGED <<pLog, pLogNextEmpty, pLogFirstFull, logEntriesOverwritten,
                   timeVars, fileVars, gLogMutex, obs>>

\* if (pItem >= gpContext->pLog + MAX_NUM_LOG_ENTRIES) pItem = gpContext->pLog;
\* gpContext->pLogFirstFull = pItem;
GetLogFirst(p) ==
    /\ th[p].pc = "getlog_first"
    /\ LET pItem == IF th[p].pItem >= MAX_NUM_LOG_ENTRIES THEN 0 ELSE th[p].pItem
       IN  /\ pLogFirstFull' = pItem
           /\ th' = [th EXCEPT ![p].pItem = pItem, ![p].pc = "getlog_test"]
    /\ UNCHANGED <<headVars, uploadVars>>
    /\ UNCHANGED <<pLog, pLogNextEmpty, numLogItems, logEntriesOverwritten,
                   timeVars, fileVars, gLogMutex, obs>>

\* gLogMutex.unlock(); return itemCount;
GetLogUnlock(p) ==
    /\ th[p].pc = "getlog_unlock"
    /\ gLogMutex' = NoThread
    /\ th' = [th EXCEPT ![p] = Return(th[p], th[p].itemCount, FALSE)]
    /\ obs' = ObsPopped(obs)
    /\ UNCHANGED <<headVars, uploadVars>>
    /\ UNCHANGED <<ctxVars, timeVars, fileVars>>

(* ------------------------------------------------------------------ *)
(* getNumLogEntries(), src/log.cpp:408-411                              *)
(* ------------------------------------------------------------------ *)

\* return gpContext->numLogItems;
GetNumLogEntries(p) ==
    /\ th[p].pc = "idle"
    /\ MayCall
    /\ th[p].op # "getNumLogEntries" \/ th[p].ret # numLogItems
    /\ th' = [th EXCEPT ![p] = Return(Enter("getNumLogEntries", "idle"),
                                      numLogItems, FALSE)]
    /\ obs' = ObsCall(obs, "getNumLogEntries", 0)
    /\ UNCHANGED <<headVars, uploadVars>>
    /\ UNCHANGED <<ctxVars, timeVars, fileVars, gLogMutex>>

(* ------------------------------------------------------------------ *)
(* writeLog() and flushLog(), src/log.cpp:657-699                       *)
(* ------------------------------------------------------------------ *)

\* The file has room for every entry a writeLog() called now would write.
FileHasRoom ==
    LET entries == Distance + (IF logEntriesOverwritten > 0 THEN 1 ELSE 0)
    IN  Len(CurrentFileBytes) + entries * EntrySize <= MaxFileEntries * EntrySize

\* The periodic caller calls writeLog().
CallWriteLog(p) ==
    /\ th[p].pc = "idle"
    /\ MayCall
    /\ FileHasRoom
    /\ th' = [th EXCEPT ![p] = Enter("writeLog", "writelog_try")]
    /\ obs' = ObsCall(obs, "writeLog", 0)
    /\ UNCHANGED <<headVars, uploadVars>>
    /\ UNCHANGED <<ctxVars, timeVars, fileVars, gLogMutex>>

\* WriteLogTry going on whether trylock() has got the mutex or not.
WriteLogTryUnchecked(p) ==
    /\ th[p].pc = "writelog_try"
    /\ gLogMutex' = p
    /\ th' = [th EXCEPT ![p].pc = "writelog_file"]
    /\ UNCHANGED <<headVars, uploadVars>>
    /\ UNCHANGED <<ctxVars, timeVars, fileVars, obs>>

\* WriteLogTry with lock() in the place of trylock().
WriteLogTryWaiting(p) ==
    /\ th[p].pc = "writelog_try"
    /\ gLogMutex = NoThread
    /\ gLogMutex' = p
    /\ th' = [th EXCEPT ![p].pc = "writelog_file"]
    /\ UNCHANGED <<headVars, uploadVars>>
    /\ UNCHANGED <<ctxVars, timeVars, fileVars, obs>>

\* if (gLogMutex.trylock()): the mutex is taken when it is free, and
\* writeLog() returns at once when another thread owns it.
WriteLogTry(p) ==
    /\ th[p].pc = "writelog_try"
    /\ IF gLogMutex = NoThread
       THEN /\ gLogMutex' = p
            /\ th' = [th EXCEPT ![p].pc = "writelog_file"]
       ELSE /\ gLogMutex' = gLogMutex
            /\ th' = [th EXCEPT ![p] = Return(th[p], 0, TRUE)]
    /\ UNCHANGED <<headVars, uploadVars>>
    /\ UNCHANGED <<ctxVars, timeVars, fileVars, obs>>

\* if (gpFile != NULL) { gNumWrites++;
WriteLogFile(p) ==
    /\ th[p].pc = "writelog_file"
    /\ IF gpFile # NULL
       THEN /\ gNumWrites' = gNumWrites + 1
            /\ th' = [th EXCEPT ![p].pc = "writelog_test"]
       ELSE /\ gNumWrites' = gNumWrites
            /\ th' = [th EXCEPT ![p].pc = "writelog_unlock"]
    /\ UNCHANGED <<headVars, uploadVars>>
    /\ UNCHANGED <<ctxVars, timeVars, gpFile, gCurrentLogFileName, gLogPath, handles,
                   dir, disk, gLogMutex, obs>>

\* while (gpContext->pLogNextEmpty != gpContext->pLogFirstFull)
WriteLogTest(p) ==
    /\ th[p].pc = "writelog_test"
    /\ th' = [th EXCEPT ![p].pc = IF pLogNextEmpty # pLogFirstFull
                                  THEN "writelog_ovtest" ELSE "writelog_flushtest"]
    /\ UNCHANGED <<headVars, uploadVars>>
    /\ UNCHANGED <<ctxVars, timeVars, fileVars, gLogMutex, obs>>

\* if (gpContext->logEntriesOverwritten > 0)
WriteLogOvTest(p) ==
    /\ th[p].pc = "writelog_ovtest"
    /\ th' = [th EXCEPT ![p].pc = IF logEntriesOverwritten > 0
                                  THEN "writelog_marker" ELSE "writelog_write"]
    /\ UNCHANGED <<headVars, uploadVars>>
    /\ UNCHANGED <<ctxVars, timeVars, fileVars, gLogMutex, obs>>

\* fwrite(&entry, sizeof(LogEntry), 1, gpFile) appends the bytes of the
\* entry to the file the handle is open on.
FWrite(e) ==
    /\ gpFile # NULL
    /\ disk' = [disk EXCEPT ![gpFile] = @ \o EntryBytes(e)]

\* LogEntry insert = {gpContext->pLogFirstFull->timestamp,
\* EVENT_LOG_ENTRIES_OVERWRITTEN, (int) gpContext->logEntriesOverwritten};
\* fwrite(&insert, sizeof(insert), 1, gpFile);
WriteLogMarker(p) ==
    /\ th[p].pc = "writelog_marker"
    /\ \E e \in EntriesAt(pLogFirstFull) :
         LET insert == LogEntry(Timestamp(e), EVENT_LOG_ENTRIES_OVERWRITTEN,
                                logEntriesOverwritten)
         IN  /\ FWrite(insert)
             /\ obs' = ObsMarker(obs, insert)
    /\ th' = [th EXCEPT ![p].pc = "writelog_ovreset"]
    /\ UNCHANGED <<headVars, uploadVars>>
    /\ UNCHANGED <<ctxVars, timeVars, gNumWrites, gpFile, gCurrentLogFileName, gLogPath,
                   handles, dir, gLogMutex>>

\* gpContext->logEntriesOverwritten = 0;
WriteLogOvReset(p) ==
    /\ th[p].pc = "writelog_ovreset"
    /\ logEntriesOverwritten' = 0
    /\ th' = [th EXCEPT ![p].pc = "writelog_write"]
    /\ UNCHANGED <<headVars, uploadVars>>
    /\ UNCHANGED <<pLog, pLogNextEmpty, pLogFirstFull, numLogItems,
                   timeVars, fileVars, gLogMutex, obs>>

\* fwrite(gpContext->pLogFirstFull, sizeof(LogEntry), 1, gpFile);
WriteLogWrite(p) ==
    /\ th[p].pc = "writelog_write"
    /\ \E e \in EntriesAt(pLogFirstFull) :
         /\ FWrite(e)
         /\ obs' = ObsDeliver(obs, e)
    /\ th' = [th EXCEPT ![p].pc = "writelog_firsttest"]
    /\ UNCHANGED <<headVars, uploadVars>>
    /\ UNCHANGED <<ctxVars, timeVars, gNumWrites, gpFile, gCurrentLogFileName, gLogPath,
                   handles, dir, gLogMutex>>

\* if (gpContext->pLogFirstFull < gpContext->pLog + MAX_NUM_LOG_ENTRIES - 1)
WriteLogFirstTest(p) ==
    /\ th[p].pc = "writelog_firsttest"
    /\ th' = [th EXCEPT ![p].t = (pLogFirstFull < MAX_NUM_LOG_ENTRIES - 1),
                        ![p].pc = "writelog_firstadv"]
    /\ UNCHANGED <<headVars, uploadVars>>
    /\ UNCHANGED <<ctxVars, timeVars, fileVars, gLogMutex, obs>>

\* gpContext->pLogFirstFull++; else gpContext->pLogFirstFull = gpContext->pLog;
WriteLogFirstAdv(p) ==
    /\ th[p].pc = "writelog_firstadv"
    /\ pLogFirstFull' = IF th[p].t THEN pLogFirstFull + 1 ELSE 0
    /\ th' = [th EXCEPT ![p].pc = "writelog_dec"]
    /\ UNCHANGED <<headVars, uploadVars>>
    /\ UNCHANGED <<pLog, pLogNextEmpty, numLogItems, logEntriesOverwritten,
                   timeVars, fileVars, gLogMutex, obs>>

\* if (gpContext->numLogItems > 0) gpContext->numLogItems--;
WriteLogDec(p) ==
    /\ th[p].pc = "writelog_dec"
    /\ numLogItems' = IF numLogItems > 0 THEN numLogItems - 1 ELSE numLogItems
    /\ th' = [th EXCEPT ![p].pc = "writelog_test"]
    /\ UNCHANGED <<headVars, uploadVars>>
    /\ UNCHANGED <<pLog, pLogNextEmpty, pLogFirstFull, logEntriesOverwritten,
                   timeVars, fileVars, gLogMutex, obs>>

\* if (gNumWrites > LOGGING_NUM_WRITES_BEFORE_FLUSH) { gNumWrites = 0;
WriteLogFlushTest(p) ==
    /\ th[p].pc = "writelog_flushtest"
    /\ IF gNumWrites > LOGGING_NUM_WRITES_BEFORE_FLUSH
       THEN /\ gNumWrites' = 0
            /\ th' = [th EXCEPT ![p].pc = "writelog_flush"]
       ELSE /\ gNumWrites' = gNumWrites
            /\ th' = [th EXCEPT ![p].pc = "writelog_unlock"]
    /\ UNCHANGED <<headVars, uploadVars>>
    /\ UNCHANGED <<ctxVars, timeVars, gpFile, gCurrentLogFileName, gLogPath, handles,
                   dir, disk, gLogMutex, obs>>

\* fopen(gCurrentLogFileName, "ab+"): the handle, or NULL when the file
\* system refuses (ok = FALSE).  Append mode creates a missing file.
FopenAppend(ok) == IF ok /\ gCurrentLogFileName # NULL THEN gCurrentLogFileName ELSE NULL

\* fopen() for writing has returned the handle f (or NULL).
Fopen(h, f) == IF f \in DOMAIN h THEN [h EXCEPT ![f] = @ + 1] ELSE h

\* fclose(f).
Fclose(h, f) == IF f \in DOMAIN h /\ h[f] > 0 THEN [h EXCEPT ![f] = @ - 1] ELSE h

\* flushLog(): if (gpFile != NULL) { fclose(gpFile);
\* gpFile = fopen(gCurrentLogFileName, "ab+"); }
FlushLog(p, oks) ==
    /\ th[p].pc = "writelog_flush"
    /\ IF gpFile # NULL
       THEN \E ok \in oks :
              /\ gpFile' = FopenAppend(ok)
              /\ handles' = Fopen(Fclose(handles, gpFile), gpFile')
              /\ dir' = IF gpFile' # NULL THEN dir \cup {gpFile'} ELSE dir
       ELSE UNCHANGED <<gpFile, handles, dir>>
    /\ th' = [th EXCEPT ![p].pc = "writelog_unlock"]
    /\ UNCHANGED <<headVars, uploadVars>>
    /\ UNCHANGED <<ctxVars, timeVars, gNumWrites, gCurrentLogFileName, gLogPath, disk,
                   gLogMutex, obs>>

\* gLogMutex.unlock(); and writeLog() returns.
WriteLogUnlock(p) ==
    /\ th[p].pc = "writelog_unlock"
    /\ gLogMutex' = NoThread
    /\ th' = [th EXCEPT ![p] = Return(th[p], 0, FALSE)]
    /\ obs' = ObsPopped(obs)
    /\ UNCHANGED <<headVars, uploadVars>>
    /\ UNCHANGED <<ctxVars, timeVars, fileVars>>

(* ------------------------------------------------------------------ *)
(* printLog(), src/log.cpp:725-784                                      *)
(* ------------------------------------------------------------------ *)

\* The application calls printLog(): FILE *pFile = gpFile is read on entry,
\* before the mutex is taken.
CallPrintLog(p) ==
    /\ th[p].pc = "idle"
    /\ MayAppend
    /\ th' = [th EXCEPT ![p] = [Enter("printLog", "printlog_lock") EXCEPT
                                   !.pFile = gpFile]]
    /\ obs' = ObsCall(obs, "printLog", 0)
    /\ UNCHANGED <<headVars, uploadVars>>
    /\ UNCHANGED <<ctxVars, timeVars, fileVars, gLogMutex>>

\* gLogMutex.lock();
PrintLogLock(p) ==
    /\ th[p].pc = "printlog_lock"
    /\ gLogMutex = NoThread
    /\ gLogMutex' = p
    /\ th' = [th EXCEPT ![p].pc = "printlog_close"]
    /\ UNCHANGED <<headVars, uploadVars>>
    /\ UNCHANGED <<ctxVars, timeVars, fileVars, obs>>

\* if (pFile != NULL) { loggingToFile = true; fclose(gpFile); gpFile = NULL;
\* LOG(EVENT_LOG_FILE_CLOSE, 0);
PrintLogClose(p) ==
    /\ th[p].pc = "printlog_close"
    /\ IF th[p].pFile # NULL
       THEN /\ gpFile' = NULL
            /\ handles' = Fclose(handles, gpFile)
            /\ obs' = IF gpFile = NULL THEN ObsFault(obs) ELSE obs
            /\ th' = [th EXCEPT ![p] = CallLog([th[p] EXCEPT !.loggingToFile = TRUE],
                                               EVENT_LOG_FILE_CLOSE, 0,
                                               "printlog_openread")]
       ELSE /\ UNCHANGED <<gpFile, handles, obs>>
            /\ th' = [th EXCEPT ![p].pc = "printlog_ram"]
    /\ UNCHANGED <<headVars, uploadVars>>
    /\ UNCHANGED <<ctxVars, timeVars, gNumWrites, gCurrentLogFileName, gLogPath,
                   dir, disk, gLogMutex>>

\* pFile = fopen(gCurrentLogFileName, "rb"); if (pFile != NULL)
\* LOG(EVENT_LOG_FILE_OPEN, 0);
PrintLogOpenRead(p, oks) ==
    /\ th[p].pc = "printlog_openread"
    /\ \E ok \in oks :
         IF ok /\ gCurrentLogFileName \in dir
         THEN th' = [th EXCEPT ![p] = CallLog([th[p] EXCEPT !.pFile = gCurrentLogFileName],
                                              EVENT_LOG_FILE_OPEN, 0, "printlog_read")]
         ELSE th' = [th EXCEPT ![p].pFile = NULL, ![p].pc = "printlog_ram"]
    /\ UNCHANGED <<headVars, uploadVars>>
    /\ UNCHANGED <<ctxVars, timeVars, fileVars, gLogMutex, obs>>

\* while (fread(&fileItem, sizeof(fileItem), 1, pFile) == 1) printLogItem(...);
\* fclose(pFile); LOG(EVENT_LOG_FILE_CLOSE, 0);
PrintLogRead(p) ==
    /\ th[p].pc = "printlog_read"
    /\ th' = [th EXCEPT ![p] = CallLog([th[p] EXCEPT
                                           !.x = Len(ReadBack(disk[th[p].pFile]))],
                                       EVENT_LOG_FILE_CLOSE, 0, "printlog_ram")]
    /\ UNCHANGED <<headVars, uploadVars>>
    /\ UNCHANGED <<ctxVars, timeVars, fileVars, gLogMutex, obs>>

\* pItem = gpContext->pLogFirstFull;
PrintLogRam(p) ==
    /\ th[p].pc = "printlog_ram"
    /\ th' = [th EXCEPT ![p].pItem = pLogFirstFull, ![p].pc = "printlog_ramtest"]
    /\ UNCHANGED <<headVars, uploadVars>>
    /\ UNCHANGED <<ctxVars, timeVars, fileVars, gLogMutex, obs>>

\* while (pItem != gpContext->pLogNextEmpty) { printLogItem(pItem, x); x++;
\* pItem++; if (pItem >= gpContext->pLog + MAX_NUM_LOG_ENTRIES) pItem = pLog; }
PrintLogRamTest(p) ==
    /\ th[p].pc = "printlog_ramtest"
    /\ IF th[p].pItem # pLogNextEmpty
       THEN th' = [th EXCEPT ![p].pItem = IF @ + 1 >= MAX_NUM_LOG_ENTRIES THEN 0 ELSE @ + 1,
                             ![p].x = @ + 1]
       ELSE th' = [th EXCEPT ![p].pc = "printlog_reopen"]
    /\ UNCHANGED <<headVars, uploadVars>>
    /\ UNCHANGED <<ctxVars, timeVars, fileVars, gLogMutex, obs>>

\* if (loggingToFile) { gpFile = fopen(gCurrentLogFileName, "ab+");
\* if (gpFile) LOG(EVENT_LOG_FILE_OPEN, 0);
\* else LOG(EVENT_LOG_FILE_OPEN_FAILURE, errno); }
PrintLogReopen(p, oks) ==
    /\ th[p].pc = "printlog_reopen"
    /\ IF th[p].loggingToFile
       THEN \E ok \in oks :
              /\ gpFile' = FopenAppend(ok)
              /\ handles' = Fopen(handles, gpFile')
              /\ dir' = IF gpFile' # NULL THEN dir \cup {gpFile'} ELSE dir
              /\ th' = [th EXCEPT ![p] =
                           IF gpFile' # NULL
                           THEN CallLog(th[p], EVENT_LOG_FILE_OPEN, 0, "printlog_unlock")
                           ELSE CallLog(th[p], EVENT_LOG_FILE_OPEN_FAILURE, ENOENT,
                                        "printlog_unlock")]
       ELSE /\ UNCHANGED <<gpFile, handles, dir>>
            /\ th' = [th EXCEPT ![p].pc = "printlog_unlock"]
    /\ UNCHANGED <<headVars, uploadVars>>
    /\ UNCHANGED <<ctxVars, timeVars, gNumWrites, gCurrentLogFileName, gLogPath, disk,
                   gLogMutex, obs>>

\* gLogMutex.unlock(); and printLog() returns.
PrintLogUnlock(p) ==
    /\ th[p].pc = "printlog_unlock"
    /\ gLogMutex' = NoThread
    /\ th' = [th EXCEPT ![p] = Return(th[p], 0, FALSE)]
    /\ UNCHANGED <<headVars, uploadVars>>
    /\ UNCHANGED <<ctxVars, timeVars, fileVars, obs>>

(* ------------------------------------------------------------------ *)
(* initLogFile(pPath) and newLogFile(), src/log.cpp:144-170, 414-440    *)
(* ------------------------------------------------------------------ *)

\* The paths the application passes: no path, the mount point of the file
\* system with and without a trailing slash, and a path one character
\* longer than LOGGING_MAX_LEN_PATH.
Paths == {NoPath, SdPath, Append(SdPath, Slash), LongPath}

\* The same, with the longest paths that are taken, with and without a
\* trailing slash.
PathsToFit ==
    Paths \cup {MaxPath, Append(SubSeq(MaxPath, 1, LOGGING_MAX_LEN_PATH - 1), Slash)}

\* The application calls initLogFile(pPath): gLogPath[0] = 0 when
\* pPath == NULL; the path is copied, less a trailing slash, when
\* strlen(pPath) < sizeof(gCurrentLogFileName) - LOGGING_MAX_LEN_FILE_NAME;
\* and then, the path being good, newLogFile() is called.
CallInitLogFile(p, paths) ==
    /\ th[p].pc = "idle"
    /\ MayAppend
    /\ \E pPath \in paths :
         LET goodPath == pPath = NoPath
                         \/ Len(pPath) < (LOGGING_MAX_LEN_FILE_PATH + 1)
                                           - LOGGING_MAX_LEN_FILE_NAME
         IN  /\ gLogPath' = CASE pPath = NoPath -> <<>>
                               [] ~goodPath -> gLogPath
                               [] pPath[Len(pPath)] = Slash ->
                                      SubSeq(pPath, 1, Len(pPath) - 1)
                               [] OTHER -> pPath
             /\ th' = [th EXCEPT ![p] = [Enter("initLogFile",
                                                IF goodPath THEN "newlogfile_probe"
                                                            ELSE "initlogfile_return")
                                          EXCEPT !.t = goodPath, !.pFile = NULL, !.x = 0]]
             /\ obs' = [ObsCall(obs, "initLogFile", 0) EXCEPT
                           !.opening = [good |-> goodPath, created |-> FALSE]]
    /\ UNCHANGED <<headVars, uploadVars>>
    /\ UNCHANGED <<ctxVars, timeVars, gNumWrites, gpFile, gCurrentLogFileName, handles,
                   dir, disk, gLogMutex>>

\* for (x = 0; (x < 1000) && (pFile == NULL); x++) {
\* sprintf(gCurrentLogFileName, "%s/%04d.log", gLogPath, x);
\* pFile = fopen(gCurrentLogFileName, "r");
\* if (pFile == NULL) ... else { fclose(pFile); pFile = NULL; }
NewLogFileProbe(p) ==
    /\ th[p].pc = "newlogfile_probe"
    /\ IF th[p].x < NumFileNames /\ th[p].pFile = NULL
       THEN /\ gCurrentLogFileName' = th[p].x
            /\ th' = IF th[p].x \in dir
                     THEN [th EXCEPT ![p].x = @ + 1]
                     ELSE [th EXCEPT ![p].pc = "newlogfile_create"]
       ELSE /\ gCurrentLogFileName' = gCurrentLogFileName
            /\ th' = [th EXCEPT ![p].pc = "initlogfile_set"]
    /\ UNCHANGED <<headVars, uploadVars>>
    /\ UNCHANGED <<ctxVars, timeVars, gNumWrites, gpFile, gLogPath, handles, dir, disk,
                   gLogMutex, obs>>

\* pFile = fopen(gCurrentLogFileName, "wb+");
\* if (pFile != NULL) LOG(EVENT_LOG_FILE_OPEN, 0);
\* else LOG(EVENT_LOG_FILE_OPEN_FAILURE, errno);   and x++
NewLogFileCreate(p, oks) ==
    /\ th[p].pc = "newlogfile_create"
    /\ \E ok \in oks :
         IF ok
         THEN /\ dir' = dir \cup {th[p].x}
              /\ disk' = [disk EXCEPT ![th[p].x] = <<>>]
              /\ handles' = Fopen(handles, th[p].x)
              /\ th' = [th EXCEPT ![p] = CallLog([th[p] EXCEPT !.pFile = th[p].x,
                                                              !.x = @ + 1],
                                                 EVENT_LOG_FILE_OPEN, 0,
                                                 "newlogfile_probe")]
              /\ obs' = [obs EXCEPT !.opening.created = TRUE]
         ELSE /\ UNCHANGED <<dir, disk, handles, obs>>
              /\ th' = [th EXCEPT ![p] = CallLog([th[p] EXCEPT !.x = @ + 1],
                                                 EVENT_LOG_FILE_OPEN_FAILURE, ENOENT,
                                                 "newlogfile_probe")]
    /\ UNCHANGED <<headVars, uploadVars>>
    /\ UNCHANGED <<ctxVars, timeVars, gNumWrites, gpFile, gCurrentLogFileName, gLogPath,
                   gLogMutex>>

\* if (goodPath) gpFile = newLogFile();
InitLogFileSet(p) ==
    /\ th[p].pc = "initlogfile_set"
    /\ gpFile' = th[p].pFile
    /\ th' = [th EXCEPT ![p].pc = "initlogfile_return"]
    /\ UNCHANGED <<headVars, uploadVars>>
    /\ UNCHANGED <<ctxVars, timeVars, gNumWrites, gCurrentLogFileName, gLogPath, handles,
                   dir, disk, gLogMutex, obs>>

\* return (gpFile != NULL);
InitLogFileReturn(p) ==
    /\ th[p].pc = "initlogfile_return"
    /\ th' = [th EXCEPT ![p] = Return(th[p], IF gpFile # NULL THEN 1 ELSE 0, FALSE)]
    /\ UNCHANGED <<headVars, uploadVars>>
    /\ UNCHANGED <<ctxVars, timeVars, fileVars, gLogMutex, obs>>

(* ------------------------------------------------------------------ *)
(* stopLogFileUpload(), src/log.cpp:538-556                             *)
(* ------------------------------------------------------------------ *)

\* The application calls stopLogFileUpload().
CallStopLogFileUpload(p) ==
    /\ th[p].pc = "idle"
    /\ MayCall
    /\ th' = [th EXCEPT ![p] = Enter("stopLogFileUpload", "stop_thread")]
    /\ obs' = ObsCall(obs, "stopLogFileUpload", 0)
    /\ UNCHANGED <<ctxVars, headVars, timeVars, fileVars, uploadVars, gLogMutex>>

\* StopThread without gpLogUploadThread = NULL.
StopThreadKept(p) ==
    /\ th[p].pc = "stop_thread"
    /\ IF gpLogUploadThread # NoThread
       THEN /\ ul' = [ul EXCEPT ![gpLogUploadThread] =
                         [NoUploadThread EXCEPT !.state = "finished"]]
            /\ th' = [th EXCEPT ![gpLogUploadThread] = IdleFrame,
                                ![p].pc = "stop_data"]
       ELSE /\ th' = [th EXCEPT ![p].pc = "stop_data"]
            /\ ul' = ul
    /\ UNCHANGED <<ctxVars, headVars, timeVars, fileVars, gpLogUploadThread,
                   gpLoggingServer, gpLogFileUploadData, gLogMutex, obs>>

\* if (gpLogUploadThread != NULL) { gpLogUploadThread->terminate();
\* gpLogUploadThread->join(); delete gpLogUploadThread;
\* gpLogUploadThread = NULL; }   The thread stops where it is.
StopThread(p) ==
    /\ th[p].pc = "stop_thread"
    /\ IF gpLogUploadThread # NoThread
       THEN /\ ul' = [ul EXCEPT ![gpLogUploadThread] = NoUploadThread]
            /\ th' = [th EXCEPT ![gpLogUploadThread] = IdleFrame,
                                ![p].pc = "stop_data"]
            /\ gpLogUploadThread' = NoThread
       ELSE /\ th' = [th EXCEPT ![p].pc = "stop_data"]
            /\ UNCHANGED <<ul, gpLogUploadThread>>
    /\ UNCHANGED <<ctxVars, headVars, timeVars, fileVars, gpLoggingServer,
                   gpLogFileUploadData, gLogMutex, obs>>

\* delete of the object a pointer holds: deleting what was deleted before
\* is a fault of the heap.
Delete(o, ptr) == IF ptr[1].freed THEN ObsFault(o) ELSE o

\* if (gpLogFileUploadData != NULL) { delete gpLogFileUploadData;
\* gpLogFileUploadData = NULL; }
StopData(p) ==
    /\ th[p].pc = "stop_data"
    /\ gpLogFileUploadData' = <<>>
    /\ obs' = IF gpLogFileUploadData # <<>> THEN Delete(obs, gpLogFileUploadData) ELSE obs
    /\ th' = [th EXCEPT ![p].pc = "stop_server"]
    /\ UNCHANGED <<ctxVars, headVars, timeVars, fileVars, gpLogUploadThread,
                   gpLoggingServer, ul, gLogMutex>>

\* if (gpLoggingServer != NULL) { delete gpLoggingServer;
\* gpLoggingServer = NULL; }   and stopLogFileUpload() returns.
StopServer(p) ==
    /\ th[p].pc = "stop_server"
    /\ gpLoggingServer' = <<>>
    /\ obs' = IF gpLoggingServer # <<>> THEN Delete(obs, gpLoggingServer) ELSE obs
    /\ th' = [th EXCEPT ![p] = Return(th[p], 0, FALSE)]
    /\ UNCHANGED <<ctxVars, headVars, timeVars, fileVars, gpLogUploadThread,
                   gpLogFileUploadData, ul, gLogMutex>>

(* ------------------------------------------------------------------ *)
(* deinitLog(), src/log.cpp:702-722                                     *)
(* ------------------------------------------------------------------ *)

\* The application calls deinitLog(): stopLogFileUpload();
CallDeinitLog(p) ==
    /\ th[p].pc = "idle"
    /\ MayCall
    /\ FileHasRoom
    /\ th' = [th EXCEPT ![p] = CallFunction(Enter("deinitLog", "idle"),
                                            "stop_thread", "deinit_logstop")]
    /\ obs' = ObsCall(obs, "deinitLog", 0)
    /\ UNCHANGED <<ctxVars, headVars, timeVars, fileVars, uploadVars, gLogMutex>>

\* LOG(EVENT_LOG_STOP, LOG_VERSION);
DeinitLogStop(p) ==
    /\ th[p].pc = "deinit_logstop"
    /\ th' = [th EXCEPT ![p] = CallLog(th[p], EVENT_LOG_STOP, LOG_VERSION,
                                       "deinit_filetest")]
    /\ UNCHANGED <<ctxVars, headVars, timeVars, fileVars, uploadVars, gLogMutex, obs>>

\* if (gpFile != NULL) { writeLog();
DeinitFileTest(p) ==
    /\ th[p].pc = "deinit_filetest"
    /\ th' = [th EXCEPT ![p] = IF gpFile # NULL
                               THEN CallFunction(th[p], "writelog_try", "deinit_flush")
                               ELSE [th[p] EXCEPT !.pc = "deinit_stop"]]
    /\ UNCHANGED <<ctxVars, headVars, timeVars, fileVars, uploadVars, gLogMutex, obs>>

\* flushLog(), called without the mutex: if (gpFile != NULL) {
\* fclose(gpFile); gpFile = fopen(gCurrentLogFileName, "ab+"); }
DeinitFlush(p, oks) ==
    /\ th[p].pc = "deinit_flush"
    /\ IF gpFile # NULL
       THEN \E ok \in oks :
              /\ gpFile' = FopenAppend(ok)
              /\ handles' = Fopen(Fclose(handles, gpFile), gpFile')
              /\ dir' = IF gpFile' # NULL THEN dir \cup {gpFile'} ELSE dir
       ELSE UNCHANGED <<gpFile, handles, dir>>
    /\ th' = [th EXCEPT ![p] = CallLog(th[p], EVENT_LOG_FILE_CLOSE, 0, "deinit_fclose")]
    /\ UNCHANGED <<ctxVars, headVars, timeVars, gNumWrites, gCurrentLogFileName,
                   gLogPath, disk, uploadVars, gLogMutex, obs>>

\* fclose(gpFile); gpFile = NULL; }   fclose(NULL) is a fault.
DeinitFclose(p) ==
    /\ th[p].pc = "deinit_fclose"
    /\ gpFile' = NULL
    /\ handles' = Fclose(handles, gpFile)
    /\ obs' = IF gpFile = NULL THEN ObsFault(obs) ELSE obs
    /\ th' = [th EXCEPT ![p].pc = "deinit_stop"]
    /\ UNCHANGED <<ctxVars, headVars, timeVars, gNumWrites, gCurrentLogFileName,
                   gLogPath, dir, disk, uploadVars, gLogMutex>>

\* gLogTime.stop(); and deinitLog() returns.
DeinitStop(p) ==
    /\ th[p].pc = "deinit_stop"
    /\ gLogTime' = [gLogTime EXCEPT !.running = FALSE]
    /\ th' = [th EXCEPT ![p] = Return(th[p], 0, th[p].busy)]
    /\ UNCHANGED <<ctxVars, headVars, gLastLogTime, gLogTimeOffset, fileVars,
                   uploadVars, gLogMutex, obs>>

(* ------------------------------------------------------------------ *)
(* File names and the directory                                         *)
(* ------------------------------------------------------------------ *)

\* sprintf(..., "%04d.log", x): the name of the log file with number x.
FileName(x) ==
    <<Digit((x \div 1000) % 10), Digit((x \div 100) % 10),
      Digit((x \div 10) % 10), Digit(x % 10)>> \o DotLog

\* The characters of gCurrentLogFileName: "%s/%04d.log" of gLogPath and
\* the number, nothing before newLogFile() has composed a name.  (The
\* application logs to one directory: gLogPath is the path the name was
\* composed with.)
NameBuffer ==
    IF gCurrentLogFileName = NULL THEN <<>>
    ELSE gLogPath \o <<Slash>> \o FileName(gCurrentLogFileName)

\* strstr(hay, needle): the index of the first occurrence, or NULL.
Strstr(hay, needle) ==
    LET found == {i \in 0 .. (Len(hay) - Len(needle)) :
                     SubSeq(hay, i + 1, i + Len(needle)) = needle}
    IN  IF found = {} THEN NULL
        ELSE CHOOSE i \in found : \A j \in found : i <= j

\* The string a pointer to index i of the buffer points to.
StringAt(buffer, i) == SubSeq(buffer, i + 1, Len(buffer))

\* The file a name of the directory names (NULL: not a log file).
FileOf(name) ==
    IF \E x \in FileNames : FileName(x) = name
    THEN CHOOSE x \in FileNames : FileName(x) = name
    ELSE NULL

\* What pDir->read() returns for the directory "/": the entry "." and the
\* files, in the order of their names.
RECURSIVE Listing(_)
Listing(files) ==
    IF files = {} THEN <<>>
    ELSE LET x == CHOOSE y \in files : \A z \in files : y <= z
         IN  <<[d_name |-> FileName(x), d_type |-> "DT_REG"]>> \o Listing(files \ {x})

DirEntries == <<[d_name |-> <<46>>, d_type |-> "DT_DIR"]>> \o Listing(dir)

\* (dirEnt.d_type == DT_REG) && ((pCurrentLogFile == NULL) ||
\* (strcmp(dirEnt.d_name, pCurrentLogFile) != 0))
ToUpload(dirEnt, pCurrentLogFile) ==
    /\ dirEnt.d_type = "DT_REG"
    /\ \/ pCurrentLogFile = NULL
       \/ dirEnt.d_name # StringAt(NameBuffer, pCurrentLogFile)

(* ------------------------------------------------------------------ *)
(* beginLogFileUpload(), src/log.cpp:443-535                            *)
(* ------------------------------------------------------------------ *)

\* The application calls beginLogFileUpload(pFileSystem, pNetworkInterface,
\* pLoggingServerUrl).
CallBeginLogFileUpload(p) ==
    /\ th[p].pc = "idle"
    /\ MayCall
    /\ th' = [th EXCEPT ![p] = Enter("beginLogFileUpload", "begin_test")]
    /\ obs' = ObsCall(obs, "beginLogFileUpload", 0)
    /\ UNCHANGED <<ctxVars, headVars, timeVars, fileVars, uploadVars, gLogMutex>>

\* if (gpLogUploadThread == NULL) { LOG(EVENT_DIR_OPEN, 0); ... } else
\* return false ("already running").
BeginTest(p) ==
    /\ th[p].pc = "begin_test"
    /\ th' = [th EXCEPT ![p] = IF gpLogUploadThread = NoThread
                               THEN CallLog(th[p], EVENT_DIR_OPEN, 0, "begin_count")
                               ELSE Return(th[p], 0, TRUE)]
    /\ obs' = [obs EXCEPT !.test =
                  IF gpLogUploadThread = NoThread THEN NoTest
                  ELSE [NoTest EXCEPT !.thread = ul[gpLogUploadThread].state,
                                      !.rejected = TRUE]]
    /\ UNCHANGED <<ctxVars, headVars, timeVars, fileVars, uploadVars, gLogMutex>>

\* NamePortion without the step back to the start of the file name.
NamePortionAtDot == Strstr(NameBuffer, DotLog)

\* pCurrentLogFile = strstr(gCurrentLogFileName, ".log");
\* if (pCurrentLogFile != NULL) pCurrentLogFile -= 4;
\* (The paths of the model put ".log" at index 5 or later.)
NamePortion ==
    LET dot == Strstr(NameBuffer, DotLog)
    IN  IF dot = NULL THEN NULL ELSE dot - 4

\* x = pDir->open(pFileSystem, "/"); if (x == 0) { pCurrentLogFile = ...;
\* do { y = pDir->read(&dirEnt); if (...) z++; } while (y > 0);
\* LOG(EVENT_LOG_FILES_TO_UPLOAD, z); } else LOG(EVENT_DIR_OPEN_FAILURE, x);
BeginCount(p, oks) ==
    /\ th[p].pc = "begin_count"
    /\ \E ok \in oks :
         IF ok
         THEN LET pCurrentLogFile == NamePortion
                  counted == {i \in 1 .. Len(DirEntries) :
                                 ToUpload(DirEntries[i], pCurrentLogFile)}
                  z == Cardinality(counted)
              IN  /\ th' = [th EXCEPT ![p] =
                               CallLog([th[p] EXCEPT !.pItem = pCurrentLogFile,
                                                     !.itemCount = z],
                                       EVENT_LOG_FILES_TO_UPLOAD, z, "begin_files")]
                  /\ obs' = [obs EXCEPT !.count =
                                [open |-> gpFile, files |-> dir,
                                 names |-> {FileOf(DirEntries[i].d_name) : i \in counted}]]
         ELSE /\ th' = [th EXCEPT ![p] = CallLog(th[p], EVENT_DIR_OPEN_FAILURE,
                                                 0 - ENOENT, "begin_return")]
              /\ obs' = obs
    /\ UNCHANGED <<ctxVars, headVars, timeVars, fileVars, uploadVars, gLogMutex>>

\* if (z > 0) { gpLoggingServer = new SocketAddress(); ...
\* LOG(EVENT_DNS_LOOKUP, 0); } else success = true;
BeginFiles(p) ==
    /\ th[p].pc = "begin_files"
    /\ IF th[p].itemCount > 0
       THEN /\ gpLoggingServer' = <<[by |-> p, freed |-> FALSE]>>
            /\ th' = [th EXCEPT ![p] = CallLog(th[p], EVENT_DNS_LOOKUP, 0, "begin_dns")]
       ELSE /\ gpLoggingServer' = gpLoggingServer
            /\ th' = [th EXCEPT ![p] = Return(th[p], 1, FALSE)]
    /\ UNCHANGED <<ctxVars, headVars, timeVars, fileVars, gpLogUploadThread,
                   gpLogFileUploadData, ul, gLogMutex, obs>>

\* if (pNetworkInterface->gethostbyname(pBuf, gpLoggingServer) == 0) ...
\* else LOG(EVENT_DNS_LOOKUP_FAILURE, 0);
BeginDns(p, oks) ==
    /\ th[p].pc = "begin_dns"
    /\ \E ok \in oks :
         /\ th' = [th EXCEPT ![p] = IF ok
                                    THEN [th[p] EXCEPT !.pc = "begin_thread"]
                                    ELSE CallLog(th[p], EVENT_DNS_LOOKUP_FAILURE, 0,
                                                 "begin_thread")]
         /\ obs' = [obs EXCEPT !.test.resolved = ok]
    /\ UNCHANGED <<ctxVars, headVars, timeVars, fileVars, uploadVars, gLogMutex>>

\* The Thread object new Thread() returns: one that does not exist yet,
\* NULL when there is none.
NewThread ==
    LET free == {i \in 1 .. Len(UploadOrder) : ul[UploadOrder[i]].state = "none"}
    IN  IF free = {} THEN NoThread
        ELSE UploadOrder[CHOOSE i \in free : \A j \in free : i <= j]

\* gpLogUploadThread = new Thread(); if (gpLogUploadThread != NULL)
BeginThread(p) ==
    /\ th[p].pc = "begin_thread"
    /\ gpLogUploadThread' = NewThread
    /\ IF NewThread # NoThread
       THEN /\ ul' = [ul EXCEPT ![NewThread].state = "created"]
            /\ th' = [th EXCEPT ![p].pc = "begin_data"]
       ELSE /\ ul' = ul
            /\ th' = [th EXCEPT ![p] = Return(th[p], 0, FALSE)]
    /\ UNCHANGED <<ctxVars, headVars, timeVars, fileVars, gpLoggingServer,
                   gpLogFileUploadData, gLogMutex, obs>>

\* gpLogFileUploadData = new LogFileUploadData();
\* gpLogFileUploadData->pCurrentLogFile = pCurrentLogFile; ...
BeginData(p) ==
    /\ th[p].pc = "begin_data"
    /\ gpLogFileUploadData' = <<[pCurrentLogFile |-> th[p].pItem, by |-> p,
                                 freed |-> FALSE]>>
    /\ th' = [th EXCEPT ![p].pc = "begin_start"]
    /\ UNCHANGED <<ctxVars, headVars, timeVars, fileVars, gpLogUploadThread,
                   gpLoggingServer, ul, gLogMutex, obs>>

\* if (gpLogUploadThread->start(callback(logFileUploadCallback)) == osOK)
\* success = true; else { delete gpLogFileUploadData;
\* gpLogFileUploadData = NULL; }   and beginLogFileUpload() returns.
\* start() fails on a Thread that has been started already.
BeginStart(p, oks) ==
    /\ th[p].pc = "begin_start"
    /\ gpLogUploadThread # NoThread
    /\ \E ok \in oks :
         IF ok /\ ul[gpLogUploadThread].state = "created"
         THEN /\ ul' = [ul EXCEPT ![gpLogUploadThread].state = "running"]
              /\ th' = [th EXCEPT ![p] = Return(th[p], 1, FALSE),
                                  ![gpLogUploadThread] =
                                      Enter("logFileUploadCallback", "up_start")]
              /\ obs' = [obs EXCEPT !.listed = {}, !.passes = {}, !.removed = {},
                                    !.failed = FALSE, !.resent = FALSE]
              /\ UNCHANGED gpLogFileUploadData
         ELSE /\ gpLogFileUploadData' = <<>>
              /\ obs' = [(IF gpLogFileUploadData # <<>>
                          THEN Delete(obs, gpLogFileUploadData) ELSE obs)
                            EXCEPT !.test.unstarted = TRUE]
              /\ th' = [th EXCEPT ![p] = Return(th[p], 0, FALSE)]
              /\ ul' = ul
    /\ UNCHANGED <<ctxVars, headVars, timeVars, fileVars, gpLogUploadThread,
                   gpLoggingServer, gLogMutex>>

\* return success; after LOG(EVENT_DIR_OPEN_FAILURE, x)
BeginReturn(p) ==
    /\ th[p].pc = "begin_return"
    /\ th' = [th EXCEPT ![p] = Return(th[p], 0, FALSE)]
    /\ UNCHANGED <<ctxVars, headVars, timeVars, fileVars, uploadVars, gLogMutex, obs>>

(* ------------------------------------------------------------------ *)
(* logFileUploadCallback(), src/log.cpp:215-317, run by the Thread u    *)
(* ------------------------------------------------------------------ *)

\* LOGGING_TCP_BUFFER_SIZE, 20 * sizeof(LogEntry), scaled down.
LOGGING_TCP_BUFFER_SIZE == TcpBufferEntries * EntrySize

\* The smaller of two numbers.
Min(a, b) == IF a < b THEN a ELSE b

\* LOG(EVENT_DIR_OPEN, 0);
UpStart(u) ==
    /\ th[u].pc = "up_start"
    /\ th' = [th EXCEPT ![u] = CallLog(th[u], EVENT_DIR_OPEN, 0, "up_diropen")]
    /\ UNCHANGED <<ctxVars, headVars, timeVars, fileVars, uploadVars, gLogMutex, obs>>

\* x = pDir->open(gpLogFileUploadData->pFileSystem, "/"); if (x == 0) ...
\* else LOG(EVENT_DIR_OPEN_FAILURE, x);
UpDirOpen(u, oks) ==
    /\ th[u].pc = "up_diropen"
    /\ \E ok \in oks :
         IF ok
         THEN /\ ul' = [ul EXCEPT ![u].entries = DirEntries, ![u].x = 0]
              /\ th' = [th EXCEPT ![u].pc = "up_read"]
              /\ obs' = [obs EXCEPT !.listed = dir]
         ELSE /\ ul' = [ul EXCEPT ![u].x = 0 - ENOENT]
              /\ th' = [th EXCEPT ![u] = CallLog(th[u], EVENT_DIR_OPEN_FAILURE,
                                                 0 - ENOENT, "up_done")]
              /\ obs' = obs
    /\ UNCHANGED <<ctxVars, headVars, timeVars, fileVars, gpLogUploadThread,
                   gpLoggingServer, gpLogFileUploadData, gLogMutex>>

\* do { x = pDir->read(&dirEnt); if ((x == 1) && (dirEnt.d_type == DT_REG)
\* && (...pCurrentLogFile == NULL || strcmp(...) != 0)) { y++;
\* LOG(EVENT_SOCKET_OPENING, y); ... } } while (x > 0);
UpRead(u) ==
    /\ th[u].pc = "up_read"
    /\ gpLogFileUploadData # <<>>
    /\ IF ul[u].entries = <<>>
       THEN /\ ul' = [ul EXCEPT ![u].x = 0]
            /\ th' = [th EXCEPT ![u].pc = "up_done"]
            /\ obs' = obs
       ELSE LET dirEnt == Head(ul[u].entries)
                take == ToUpload(dirEnt, gpLogFileUploadData[1].pCurrentLogFile)
                y == IF take THEN ul[u].y + 1 ELSE ul[u].y
            IN  /\ ul' = [ul EXCEPT ![u].entries = Tail(@), ![u].x = 1, ![u].y = y,
                                    ![u].d_name = dirEnt.d_name,
                                    ![u].d_type = dirEnt.d_type]
                /\ th' = [th EXCEPT ![u] = IF take
                                           THEN CallLog(th[u], EVENT_SOCKET_OPENING, y,
                                                        "up_sockopen")
                                           ELSE th[u]]
                /\ obs' = [obs EXCEPT !.passes = @ \cup
                               {[file |-> FileOf(dirEnt.d_name), open |-> gpFile,
                                 taken |-> take]}]
    /\ UNCHANGED <<ctxVars, headVars, timeVars, fileVars, gpLogUploadThread,
                   gpLoggingServer, gpLogFileUploadData, gLogMutex>>

\* nsapiError = pTcpSock->open(...); if (nsapiError == NSAPI_ERROR_OK)
\* LOG(EVENT_SOCKET_OPENED, y); else LOG(EVENT_SOCKET_OPENING_FAILURE, ...);
UpSockOpen(u, oks) ==
    /\ th[u].pc = "up_sockopen"
    /\ \E ok \in oks :
         /\ th' = [th EXCEPT ![u] =
                      IF ok
                      THEN CallLog(th[u], EVENT_SOCKET_OPENED, ul[u].y, "up_connecting")
                      ELSE CallLog(th[u], EVENT_SOCKET_OPENING_FAILURE, NSAPI_ERROR,
                                   "up_read")]
         /\ ul' = IF ok THEN [ul EXCEPT ![u].sock = "open"] ELSE ul
    /\ UNCHANGED <<ctxVars, headVars, timeVars, fileVars, gpLogUploadThread,
                   gpLoggingServer, gpLogFileUploadData, gLogMutex, obs>>

\* pTcpSock->set_timeout(10000); LOG(EVENT_TCP_CONNECTING, y);
UpConnecting(u) ==
    /\ th[u].pc = "up_connecting"
    /\ th' = [th EXCEPT ![u] = CallLog(th[u], EVENT_TCP_CONNECTING, ul[u].y,
                                       "up_connect")]
    /\ UNCHANGED <<ctxVars, headVars, timeVars, fileVars, uploadVars, gLogMutex, obs>>

\* nsapiError = pTcpSock->connect(*gpLoggingServer); if (... == NSAPI_ERROR_OK)
\* LOG(EVENT_TCP_CONNECTED, y); else LOG(EVENT_TCP_CONNECT_FAILURE, ...);
UpConnect(u, oks) ==
    /\ th[u].pc = "up_connect"
    /\ \E ok \in oks :
         /\ th' = [th EXCEPT ![u] =
                      IF ok
                      THEN CallLog(th[u], EVENT_TCP_CONNECTED, ul[u].y, "up_starting")
                      ELSE CallLog(th[u], EVENT_TCP_CONNECT_FAILURE, NSAPI_ERROR,
                                   "up_read")]
         /\ ul' = IF ok THEN [ul EXCEPT ![u].sock = "connected"] ELSE ul
    /\ UNCHANGED <<ctxVars, headVars, timeVars, fileVars, gpLogUploadThread,
                   gpLoggingServer, gpLogFileUploadData, gLogMutex, obs>>

\* LOG(EVENT_LOG_UPLOAD_STARTING, y);
UpStarting(u) ==
    /\ th[u].pc = "up_starting"
    /\ th' = [th EXCEPT ![u] = CallLog(th[u], EVENT_LOG_UPLOAD_STARTING, ul[u].y,
                                       "up_fopen")]
    /\ UNCHANGED <<ctxVars, headVars, timeVars, fileVars, uploadVars, gLogMutex, obs>>

\* sprintf(fileNameBuffer, "%s/%s", gLogPath, dirEnt.d_name);
\* pFile = fopen(fileNameBuffer, "r"); if (pFile != NULL) {
\* LOG(EVENT_LOG_FILE_OPEN, 0); sendTotalThisFile = 0; ... } else
\* LOG(EVENT_LOG_FILE_OPEN_FAILURE, 0);
UpFopen(u, oks) ==
    /\ th[u].pc = "up_fopen"
    /\ \E ok \in oks :
         IF ok /\ FileOf(ul[u].d_name) \in dir
         THEN /\ ul' = [ul EXCEPT ![u].pFile = FileOf(ul[u].d_name), ![u].pos = 0,
                                  ![u].eof = FALSE, ![u].sendTotalThisFile = 0,
                                  ![u].wire = <<>>]
              /\ th' = [th EXCEPT ![u] = CallLog(th[u], EVENT_LOG_FILE_OPEN, 0,
                                                 "up_fread")]
              /\ obs' = [obs EXCEPT !.failed = FALSE]
         ELSE /\ ul' = [ul EXCEPT ![u].pFile = NULL]
              /\ th' = [th EXCEPT ![u] = CallLog(th[u], EVENT_LOG_FILE_OPEN_FAILURE, 0,
                                                 "up_read")]
              /\ obs' = obs
    /\ UNCHANGED <<ctxVars, headVars, timeVars, fileVars, gpLogUploadThread,
                   gpLoggingServer, gpLogFileUploadData, gLogMutex>>

\* size = fread(pReadBuffer, 1, LOGGING_TCP_BUFFER_SIZE, pFile);
\* sendCount = 0;   A read that fails returns nothing and sets the error
\* indicator, a read that finds fewer bytes than asked for sets the
\* end-of-file indicator.
UpFread(u, oks) ==
    /\ th[u].pc = "up_fread"
    /\ \E ok \in oks :
         LET bytes == disk[ul[u].pFile]
             size == IF ok THEN Min(LOGGING_TCP_BUFFER_SIZE, Len(bytes) - ul[u].pos)
                           ELSE 0
         IN  ul' = [ul EXCEPT ![u].size = size, ![u].sendCount = 0,
                              ![u].unsent = SubSeq(bytes, ul[u].pos + 1,
                                                   ul[u].pos + size),
                              ![u].pos = @ + size,
                              ![u].eof = @ \/ (ok /\ size < LOGGING_TCP_BUFFER_SIZE)]
    /\ th' = [th EXCEPT ![u].pc = "up_sendtest"]
    /\ UNCHANGED <<ctxVars, headVars, timeVars, fileVars, gpLogUploadThread,
                   gpLoggingServer, gpLogFileUploadData, gLogMutex, obs>>

\* while (sendCount < size) { ... }   and   } while (size > 0);
UpSendTest(u) ==
    /\ th[u].pc = "up_sendtest"
    /\ th' = [th EXCEPT ![u].pc = CASE ul[u].sendCount < ul[u].size -> "up_send"
                                    [] ul[u].size > 0 -> "up_fread"
                                    [] OTHER -> "up_completed"]
    /\ UNCHANGED <<ctxVars, headVars, timeVars, fileVars, uploadVars, gLogMutex, obs>>

\* What send() may return for n bytes: an error (or a timeout), a part of
\* the bytes, all of them.
SendResults(n) == {NSAPI_ERROR, (n + 1) \div 2, n}

\* z = pTcpSock->send(pReadBuffer + sendCount, size - sendCount);
\* if (z > 0) { sendCount += z; sendTotalThisFile += z;
\* LOG(EVENT_LOG_FILE_BYTE_COUNT, sendTotalThisFile); }
UpSend(u, results) ==
    /\ th[u].pc = "up_send"
    /\ \E z \in SendResults(ul[u].size - ul[u].sendCount) \cap results :
         IF z > 0
         THEN /\ ul' = [ul EXCEPT ![u].z = z, ![u].sendCount = @ + z,
                                  ![u].sendTotalThisFile = @ + z,
                                  ![u].unsent = SubSeq(@, z + 1, Len(@)),
                                  ![u].wire = @ \o SubSeq(ul[u].unsent, 1, z)]
              /\ th' = [th EXCEPT ![u] = CallLog(th[u], EVENT_LOG_FILE_BYTE_COUNT,
                                                 ul[u].sendTotalThisFile + z,
                                                 "up_sendtest")]
              /\ obs' = [obs EXCEPT !.resent = @ \/ obs.failed]
         ELSE /\ ul' = [ul EXCEPT ![u].z = z]
              /\ th' = [th EXCEPT ![u].pc = "up_sendtest"]
              /\ obs' = [obs EXCEPT !.resent = @ \/ obs.failed, !.failed = TRUE]
    /\ UNCHANGED <<ctxVars, headVars, timeVars, fileVars, gpLogUploadThread,
                   gpLoggingServer, gpLogFileUploadData, gLogMutex>>

\* LOG(EVENT_LOG_FILE_UPLOAD_COMPLETED, y);
UpCompleted(u) ==
    /\ th[u].pc = "up_completed"
    /\ th' = [th EXCEPT ![u] = CallLog(th[u], EVENT_LOG_FILE_UPLOAD_COMPLETED,
                                       ul[u].y, "up_remove")]
    /\ UNCHANGED <<ctxVars, headVars, timeVars, fileVars, uploadVars, gLogMutex, obs>>

\* What the observer notes when the upload thread removes the file f.
ObsRemoved(o, u, f) ==
    [o EXCEPT !.removed = @ \cup {[file |-> f, eof |-> ul[u].eof,
                                   sent |-> ul[u].wire = disk[f]]}]

\* UpRemove without the test of feof(pFile).
UpRemoveUntested(u, oks) ==
    /\ th[u].pc = "up_remove"
    /\ \E ok \in oks :
         IF ok /\ ul[u].pFile \in dir
         THEN /\ dir' = dir \ {ul[u].pFile}
              /\ obs' = ObsRemoved(obs, u, ul[u].pFile)
              /\ th' = [th EXCEPT ![u] = CallLog(th[u], EVENT_FILE_DELETED, 0,
                                                 "up_logclose")]
         ELSE /\ UNCHANGED <<dir, obs>>
              /\ th' = [th EXCEPT ![u] = CallLog(th[u], EVENT_FILE_DELETE_FAILURE,
                                                 0, "up_logclose")]
    /\ ul' = [ul EXCEPT ![u].sock = "closed"]
    /\ UNCHANGED <<ctxVars, headVars, timeVars, gNumWrites, gpFile,
                   gCurrentLogFileName, gLogPath, handles, disk, gpLogUploadThread,
                   gpLoggingServer, gpLogFileUploadData, gLogMutex>>

\* pTcpSock->close(); if (feof(pFile)) { if (remove(fileNameBuffer) == 0)
\* LOG(EVENT_FILE_DELETED, 0); else LOG(EVENT_FILE_DELETE_FAILURE, 0); }
UpRemove(u, oks) ==
    /\ th[u].pc = "up_remove"
    /\ IF ul[u].eof
       THEN \E ok \in oks :
              IF ok /\ ul[u].pFile \in dir
              THEN /\ dir' = dir \ {ul[u].pFile}
                   /\ obs' = ObsRemoved(obs, u, ul[u].pFile)
                   /\ th' = [th EXCEPT ![u] = CallLog(th[u], EVENT_FILE_DELETED, 0,
                                                      "up_logclose")]
              ELSE /\ UNCHANGED <<dir, obs>>
                   /\ th' = [th EXCEPT ![u] = CallLog(th[u], EVENT_FILE_DELETE_FAILURE,
                                                      0, "up_logclose")]
       ELSE /\ UNCHANGED <<dir, obs>>
            /\ th' = [th EXCEPT ![u].pc = "up_logclose"]
    /\ ul' = [ul EXCEPT ![u].sock = "closed"]
    /\ UNCHANGED <<ctxVars, headVars, timeVars, gNumWrites, gpFile,
                   gCurrentLogFileName, gLogPath, handles, disk, gpLogUploadThread,
                   gpLoggingServer, gpLogFileUploadData, gLogMutex>>

\* LOG(EVENT_LOG_FILE_CLOSE, 0);
UpLogClose(u) ==
    /\ th[u].pc = "up_logclose"
    /\ th' = [th EXCEPT ![u] = CallLog(th[u], EVENT_LOG_FILE_CLOSE, 0, "up_fclose")]
    /\ UNCHANGED <<ctxVars, headVars, timeVars, fileVars, uploadVars, gLogMutex, obs>>

\* fclose(pFile);   and the loop goes on with the next entry.
UpFclose(u) ==
    /\ th[u].pc = "up_fclose"
    /\ ul' = [ul EXCEPT ![u].pFile = NULL]
    /\ th' = [th EXCEPT ![u].pc = "up_read"]
    /\ UNCHANGED <<ctxVars, headVars, timeVars, fileVars, gpLogUploadThread,
                   gpLoggingServer, gpLogFileUploadData, gLogMutex, obs>>

\* LOG(EVENT_LOG_UPLOAD_TASK_COMPLETED, 0);
UpDone(u) ==
    /\ th[u].pc = "up_done"
    /\ th' = [th EXCEPT ![u] = CallLog(th[u], EVENT_LOG_UPLOAD_TASK_COMPLETED, 0,
                                       "up_deldata")]
    /\ UNCHANGED <<ctxVars, headVars, timeVars, fileVars, uploadVars, gLogMutex, obs>>

\* The object a pointer holds after delete: the pointer is left as it is.
Deleted(ptr) == IF ptr = <<>> THEN ptr ELSE <<[ptr[1] EXCEPT !.freed = TRUE]>>

\* delete gpLogFileUploadData;
UpDeleteData(u) ==
    /\ th[u].pc = "up_deldata"
    /\ gpLogFileUploadData' = Deleted(gpLogFileUploadData)
    /\ obs' = IF gpLogFileUploadData # <<>> THEN Delete(obs, gpLogFileUploadData) ELSE obs
    /\ th' = [th EXCEPT ![u].pc = "up_nulldata"]
    /\ UNCHANGED <<ctxVars, headVars, timeVars, fileVars, gpLogUploadThread,
                   gpLoggingServer, ul, gLogMutex>>

\* gpLogFileUploadData = NULL;
UpNullData(u) ==
    /\ th[u].pc = "up_nulldata"
    /\ gpLogFileUploadData' = <<>>
    /\ th' = [th EXCEPT ![u].pc = "up_delserver"]
    /\ UNCHANGED <<ctxVars, headVars, timeVars, fileVars, gpLogUploadThread,
                   gpLoggingServer, ul, gLogMutex, obs>>

\* delete gpLoggingServer;
UpDeleteServer(u) ==
    /\ th[u].pc = "up_delserver"
    /\ gpLoggingServer' = Deleted(gpLoggingServer)
    /\ obs' = IF gpLoggingServer # <<>> THEN Delete(obs, gpLoggingServer) ELSE obs
    /\ th' = [th EXCEPT ![u].pc = "up_nullserver"]
    /\ UNCHANGED <<ctxVars, headVars, timeVars, fileVars, gpLogUploadThread,
                   gpLogFileUploadData, ul, gLogMutex>>

\* gpLoggingServer = NULL; and the callback returns: the thread has
\* finished, the Thread object and gpLogUploadThread stay as they are.
UpNullServer(u) ==
    /\ th[u].pc = "up_nullserver"
    /\ gpLoggingServer' = <<>>
    /\ ul' = [ul EXCEPT ![u] = [NoUploadThread EXCEPT !.state = "finished"]]
    /\ th' = [th EXCEPT ![u] = [IdleFrame EXCEPT !.op = "logFileUploadCallback"]]
    /\ UNCHANGED <<ctxVars, headVars, timeVars, fileVars, gpLogUploadThread,
                   gpLogFileUploadData, gLogMutex, obs>>

(* ------------------------------------------------------------------ *)
(* The specifications                                                   *)
(* ------------------------------------------------------------------ *)

\* A step of thread p inside LOG or LOGX, but for the call LOG makes of
\* itself (LogWrap), which needs a timer that is seen to go back.
LogStep(p, deltas) ==
    \/ LogEnter(p, deltas)
    \/ LogSetLast(p)
    \/ LogStore(p)
    \/ LogAdvTest(p)
    \/ LogAdv(p)
    \/ LogCmp(p)
    \/ LogFirstTest(p)
    \/ LogFirstAdv(p)
    \/ LogOvInc(p)
    \/ LogCount(p)

\* A step of thread p inside LOGX.
LogxStep(p) ==
    \/ LogxLock(p)
    \/ LogxUnlock(p)

\* A step of thread p inside getLog().
GetLogStep(p) ==
    \/ GetLogLock(p)
    \/ GetLogInit(p)
    \/ GetLogTest(p)
    \/ GetLogOvTest(p)
    \/ GetLogMarker(p)
    \/ GetLogOvReset(p)
    \/ GetLogCopy(p)
    \/ GetLogDec(p)
    \/ GetLogFirst(p)
    \/ GetLogUnlock(p)

\* A step of thread p inside writeLog().
WriteLogStep(p, oks) ==
    \/ WriteLogTry(p)
    \/ WriteLogFile(p)
    \/ WriteLogTest(p)
    \/ WriteLogOvTest(p)
    \/ WriteLogMarker(p)
    \/ WriteLogOvReset(p)
    \/ WriteLogWrite(p)
    \/ WriteLogFirstTest(p)
    \/ WriteLogFirstAdv(p)
    \/ WriteLogDec(p)
    \/ WriteLogFlushTest(p)
    \/ FlushLog(p, oks)
    \/ WriteLogUnlock(p)

\* A step of thread p inside printLog().
PrintLogStep(p, oks) ==
    \/ PrintLogLock(p)
    \/ PrintLogClose(p)
    \/ PrintLogOpenRead(p, oks)
    \/ PrintLogRead(p)
    \/ PrintLogRam(p)
    \/ PrintLogRamTest(p)
    \/ PrintLogReopen(p, oks)
    \/ PrintLogUnlock(p)

\* A step of thread p inside stopLogFileUpload().
StopStep(p) ==
    \/ StopThread(p)
    \/ StopData(p)
    \/ StopServer(p)

\* A step of thread p inside deinitLog(), but for those of the functions
\* it calls.
DeinitStep(p, oks) ==
    \/ DeinitLogStop(p)
    \/ DeinitFileTest(p)
    \/ DeinitFlush(p, oks)
    \/ DeinitFclose(p)
    \/ DeinitStop(p)

\* A step of thread p inside beginLogFileUpload().
BeginStep(p, oks) ==
    \/ BeginTest(p)
    \/ BeginCount(p, oks)
    \/ BeginFiles(p)
    \/ BeginDns(p, oks)
    \/ BeginThread(p)
    \/ BeginData(p)
    \/ BeginStart(p, oks)
    \/ BeginReturn(p)

\* A step of the upload thread u inside logFileUploadCallback().
UploadStep(u, oks, results) ==
    \/ UpStart(u)
    \/ UpDirOpen(u, oks)
    \/ UpRead(u)
    \/ UpSockOpen(u, oks)
    \/ UpConnecting(u)
    \/ UpConnect(u, oks)
    \/ UpStarting(u)
    \/ UpFopen(u, oks)
    \/ UpFread(u, oks)
    \/ UpSendTest(u)
    \/ UpSend(u, results)
    \/ UpCompleted(u)
    \/ UpRemove(u, oks)
    \/ UpLogClose(u)
    \/ UpFclose(u)
    \/ UpDone(u)
    \/ UpDeleteData(u)
    \/ UpNullData(u)
    \/ UpDeleteServer(u)
    \/ UpNullServer(u)

\* A step of thread p inside initLog(), but for those of LOG.
InitLogStep(p) ==
    \/ InitLogContext(p)
    \/ InitLogTimer(p)
    \/ InitLogReturn(p)

\* A step of thread p inside initLogFile().
InitLogFileStep(p, oks) ==
    \/ NewLogFileProbe(p)
    \/ NewLogFileCreate(p, oks)
    \/ InitLogFileSet(p)
    \/ InitLogFileReturn(p)

Init == InitWith(TRUE, TRUE)

\* The same state, the observer not recording the runs of appends.
InitCalls == InitWith(TRUE, FALSE)

\* One thread calls the functions one after the other.
Next ==
    \/ CallLOG("t1", Inputs)
    \/ CallLOGX("t1", Inputs)
    \/ CallGetLog("t1", Counts)
    \/ GetNumLogEntries("t1")
    \/ LogStep("t1", {1})
    \/ LogWrap("t1")
    \/ LogxStep("t1")
    \/ GetLogStep("t1")

Spec == Init /\ [][Next]_vars

\* One thread logs and pops with any numEntries.
NextPop ==
    \/ CallLOG("t1", Inputs)
    \/ CallGetLog("t1", PopCounts)
    \/ LogStep("t1", {1})
    \/ LogWrap("t1")
    \/ GetLogStep("t1")

SpecPop == InitCalls /\ [][NextPop]_vars

\* One thread logs and pops; the timer may be read as having gone back.
NextWrap ==
    \/ CallLOG("t1", {<<EVENT_USER_0, 5>>})
    \/ CallLOGX("t1", {<<EVENT_USER_0, 5>>})
    \/ CallGetLog("t1", {MAX_NUM_LOG_ENTRIES + 1})
    \/ LogStep("t1", {0, 1, TimeModulus - 1})
    \/ LogWrap("t1")
    \/ LogxStep("t1")
    \/ GetLogStep("t1")

SpecWrap == InitCalls /\ [][NextWrap]_vars

\* One thread logs, pops and drains; the timer stands still.
NextDrain ==
    \/ CallLOG("t1", {<<EVENT_USER_1, -1>>})
    \/ CallGetLog("t1", {1, MAX_NUM_LOG_ENTRIES + 1})
    \/ CallWriteLog("t1")
    \/ gpFile = NULL /\ CallInitLogFile("t1", {SdPath})
    \/ LogStep("t1", {0})
    \/ GetLogStep("t1")
    \/ WriteLogStep("t1", {TRUE})
    \/ InitLogFileStep("t1", {TRUE})

SpecDrain == InitCalls /\ [][NextDrain]_vars

\* One thread logs and drains to the file; the timer runs.
NextFile ==
    \/ CallLOG("t1", Inputs)
    \/ CallWriteLog("t1")
    \/ gpFile = NULL /\ CallInitLogFile("t1", {SdPath})
    \/ LogStep("t1", {1})
    \/ LogWrap("t1")
    \/ WriteLogStep("t1", {TRUE})
    \/ InitLogFileStep("t1", {TRUE})

SpecFile == InitCalls /\ [][NextFile]_vars

\* One thread logs with LOG while another pops and drains.
NextLoss ==
    \/ CallLOG("t1", {<<EVENT_USER_0, 5>>})
    \/ LogStep("t1", {0})
    \/ CallGetLog("t2", {MAX_NUM_LOG_ENTRIES + 1})
    \/ CallWriteLog("t2")
    \/ GetLogStep("t2")
    \/ WriteLogStep("t2", {TRUE})

SpecLoss == InitOpen /\ [][NextLoss]_vars

\* Two threads log with LOG, one of them with LOGX too, while the other
\* pops and drains.
NextRace ==
    \/ CallLOG("t1", {<<EVENT_USER_0, 5>>})
    \/ CallLOGX("t1", {<<EVENT_USER_0, 5>>})
    \/ LogStep("t1", {0})
    \/ LogxStep("t1")
    \/ CallLOG("t2", {<<EVENT_USER_1, -1>>})
    \/ LogStep("t2", {0})
    \/ CallGetLog("t2", {MAX_NUM_LOG_ENTRIES + 1})
    \/ CallWriteLog("t2")
    \/ GetLogStep("t2")
    \/ WriteLogStep("t2", {TRUE})

SpecRace == InitOpen /\ [][NextRace]_vars

\* What a thread does with the mutex: LOGX, getLog(), writeLog(), printLog().
Locking(p) ==
    \/ CallLOGX(p, {<<EVENT_USER_0, 5>>})
    \/ CallGetLog(p, {MAX_NUM_LOG_ENTRIES + 1})
    \/ CallWriteLog(p)
    \/ CallPrintLog(p)
    \/ LogStep(p, {0})
    \/ LogxStep(p)
    \/ GetLogStep(p)
    \/ WriteLogStep(p, {TRUE})
    \/ PrintLogStep(p, {TRUE})

\* Two threads use the functions that take the mutex.
NextLock == \E p \in Threads : Locking(p)

SpecLock == InitOpen /\ [][NextLock]_vars

\* One thread drains and closes the log while another logs with LOGX.
NextClose ==
    \/ CallWriteLog("t1")
    \/ CallDeinitLog("t1")
    \/ StopStep("t1")
    \/ DeinitStep("t1", {TRUE})
    \/ WriteLogStep("t1", {TRUE})
    \/ LogStep("t1", {0})
    \/ CallLOGX("t2", {<<EVENT_USER_0, 5>>})
    \/ LogxStep("t2")
    \/ LogStep("t2", {0})

SpecClose == InitOpen /\ [][NextClose]_vars

\* One thread closes the log while another writes it to the file
\* periodically.
NextShut ==
    \/ CallDeinitLog("t1")
    \/ StopStep("t1")
    \/ DeinitStep("t1", {TRUE})
    \/ WriteLogStep("t1", {TRUE})
    \/ LogStep("t1", {0})
    \/ CallWriteLog("t2")
    \/ WriteLogStep("t2", {TRUE})

SpecShut == InitOpen /\ [][NextShut]_vars

\* One thread starts the upload of the log files and stops it at any
\* time; the directory, the network and the files may fail at every step.
NextUpload ==
    \/ th["t1"].op = "none" /\ CallBeginLogFileUpload("t1")
    \/ CallStopLogFileUpload("t1")
    \/ BeginStep("t1", BOOLEAN)
    \/ StopStep("t1")
    \/ LogStep("t1", {0})
    \/ \E u \in Uploads :
         \/ UploadStep(u, BOOLEAN, Int)
         \/ LogStep(u, {0})

SpecUpload == InitUpload /\ [][NextUpload]_vars

\* One upload is begun and is not stopped; every call the upload thread
\* makes returns, so the thread goes on as long as it has a step to take.
NextFinish ==
    \/ th["t1"].op = "none" /\ CallBeginLogFileUpload("t1")
    \/ BeginStep("t1", BOOLEAN)
    \/ LogStep("t1", {0})
    \/ \E u \in Uploads :
         \/ UploadStep(u, BOOLEAN, Int)
         \/ LogStep(u, {0})

SpecFinish ==
    /\ InitUpload
    /\ [][NextFinish]_vars
    /\ WF_vars(\E u \in Uploads : UploadStep(u, BOOLEAN, Int) \/ LogStep(u, {0}))

\* One thread starts and stops the upload again and again; the directory,
\* the name server and the start of the thread may fail, and no socket can
\* be opened.
NextRestart ==
    \/ CallBeginLogFileUpload("t1")
    \/ CallStopLogFileUpload("t1")
    \/ BeginStep("t1", BOOLEAN)
    \/ StopStep("t1")
    \/ LogStep("t1", {0})
    \/ \E u \in Uploads :
         \/ UpStart(u)
         \/ UpDirOpen(u, BOOLEAN)
         \/ UpRead(u)
         \/ UpSockOpen(u, {FALSE})
         \/ UpDone(u)
         \/ UpDeleteData(u)
         \/ UpNullData(u)
         \/ UpDeleteServer(u)
         \/ UpNullServer(u)
         \/ LogStep(u, {0})

SpecRestart == InitRestart /\ [][NextRestart]_vars

\* One thread logs, pops and calls initLog() again, on the region as it
\* is or with a header that does not match; the timer goes on and wraps.
NextWarm ==
    \/ CallLOG("t1", {<<EVENT_USER_0, 5>>})
    \/ CallGetLog("t1", {1})
    \/ CallInitLog("t1", Regions)
    \/ LogStep("t1", {0, 1})
    \/ LogWrap("t1")
    \/ GetLogStep("t1")
    \/ InitLogStep("t1")

SpecWarm == InitWarm /\ [][NextWarm]_vars

\* One thread logs, suspends, resumes and calls initLog() again; the timer
\* goes on and wraps.
NextResume ==
    \/ CallLOG("t1", {<<EVENT_USER_0, 5>>})
    \/ SuspendLog("t1")
    \/ ResumeLog("t1", Intervals)
    \/ CallInitLog("t1", {"retained"})
    \/ LogStep("t1", {0, 1})
    \/ LogWrap("t1")
    \/ InitLogStep("t1")

SpecResume == InitTiming /\ [][NextResume]_vars

\* One thread opens log files under short and long paths, drains, prints
\* and closes, in any order; a file may fail to be created.
NextReopen ==
    \/ CallInitLogFile("t1", Paths)
    \/ CallWriteLog("t1")
    \/ CallPrintLog("t1")
    \/ CallDeinitLog("t1")
    \/ InitLogFileStep("t1", BOOLEAN)
    \/ WriteLogStep("t1", {TRUE})
    \/ PrintLogStep("t1", {TRUE})
    \/ StopStep("t1")
    \/ DeinitStep("t1", {TRUE})
    \/ LogStep("t1", {0})

SpecReopen == InitOpen /\ [][NextReopen]_vars

\* One thread opens the log file with paths of any length and writes the
\* log to it.
NextPath ==
    \/ CallInitLogFile("t1", PathsToFit)
    \/ CallWriteLog("t1")
    \/ InitLogFileStep("t1", BOOLEAN)
    \/ WriteLogStep("t1", {TRUE})
    \/ LogStep("t1", {0})

SpecPath == InitOpen /\ [][NextPath]_vars

\* Two threads start the upload, and the threads they create do not get
\* to run before the calls have returned; the directory and the name
\* server work.
NextBegin ==
    \E p \in Threads :
        \/ CallBeginLogFileUpload(p)
        \/ BeginTest(p)
        \/ BeginCount(p, {TRUE})
        \/ BeginFiles(p)
        \/ BeginDns(p, {TRUE})
        \/ BeginThread(p)
        \/ BeginData(p)
        \/ BeginStart(p, {TRUE})
        \/ LogStep(p, {0})

SpecBegin == InitUpload /\ [][NextBegin]_vars

(* ------------------------------------------------------------------ *)
(* The ring buffer, one call at a time (Spec)                           *)
(* ------------------------------------------------------------------ *)

\* The overwritten-marker getLog() and writeLog() emit for count c when
\* the oldest unread entry is e.
Marker(e, c) == LogEntry(Timestamp(e), EVENT_LOG_ENTRIES_OVERWRITTEN, c)

\* The timestamps of the entries of s increase strictly.
Increasing(s) == \A i \in 1 .. (Len(s) - 1) : Timestamp(s[i]) < Timestamp(s[i + 1])

\* C1: from an empty buffer, after k <= MAX_NUM_LOG_ENTRIES appends (LOG or
\* LOGX) with non-decreasing timestamps and no pop in between, a getLog()
\* with numEntries >= k returns exactly the k entries appended, in the order
\* and with the event and parameter they were appended with.
C1_FifoUpToCapacity ==
    (/\ AllIdle
     /\ obs.op = "getLog"
     /\ obs.preRunOk
     /\ Len(obs.preRun) <= MAX_NUM_LOG_ENTRIES
     /\ obs.arg >= Len(obs.preRun))
    => (/\ th["t1"].ret = Len(obs.preRun)
        /\ obs.out = obs.preRun)

\* C2: from an empty buffer, after k > MAX_NUM_LOG_ENTRIES appends with
\* increasing timestamps and no pop in between, logEntriesOverwritten is
\* k - MAX_NUM_LOG_ENTRIES and numLogItems is MAX_NUM_LOG_ENTRIES; after
\* MAX_NUM_LOG_ENTRIES + 1 appends a getLog() with room for all returns the
\* marker for one overwritten entry and then every entry but the first.
C2_OverwrittenIsExcess ==
    /\ (/\ AllIdle
        /\ obs.runOk
        /\ Len(obs.run) > MAX_NUM_LOG_ENTRIES
        /\ Increasing(obs.run))
       => (/\ logEntriesOverwritten = Len(obs.run) - MAX_NUM_LOG_ENTRIES
           /\ numLogItems = MAX_NUM_LOG_ENTRIES)
    /\ (/\ AllIdle
        /\ obs.op = "getLog"
        /\ obs.preRunOk
        /\ Len(obs.preRun) = MAX_NUM_LOG_ENTRIES + 1
        /\ Increasing(obs.preRun)
        /\ obs.arg >= MAX_NUM_LOG_ENTRIES + 1)
       => (/\ th["t1"].ret = MAX_NUM_LOG_ENTRIES + 1
           /\ obs.out = <<Marker(obs.preRun[2], 1)>> \o Tail(obs.preRun))

\* The number of entries stored and neither handed out nor overwritten.
Outstanding == obs.owed - logEntriesOverwritten

\* C7: with one call at a time, getNumLogEntries() returns numLogItems and
\* changes nothing; between calls numLogItems is the number of unread
\* entries, which is the circular distance from pLogFirstFull to
\* pLogNextEmpty; and no entry is unread exactly when
\* pLogNextEmpty == pLogFirstFull and numLogItems == 0.
C7_CountIsUnread ==
    /\ [](AllIdle => /\ numLogItems = Distance
                     /\ numLogItems = Outstanding
                     /\ (Outstanding = 0
                           <=> (pLogNextEmpty = pLogFirstFull /\ numLogItems = 0))
                     /\ (th["t1"].op = "getNumLogEntries"
                           => th["t1"].ret = numLogItems))
    /\ [][(th["t1"].pc = "idle" /\ th'["t1"].op = "getNumLogEntries"
                                /\ th'["t1"].pc = "idle")
            => (/\ th'["t1"].ret = numLogItems
                /\ UNCHANGED <<ctxVars, timeVars, fileVars, gLogMutex>>)]_vars

\* C7 witness: getNumLogEntries() has returned the count of a full buffer
\* that has overwritten an entry.
C7_Witness ==
    /\ AllIdle
    /\ th["t1"].op = "getNumLogEntries"
    /\ th["t1"].ret = MAX_NUM_LOG_ENTRIES - 1
    /\ logEntriesOverwritten > 0

(* ------------------------------------------------------------------ *)
(* The pop and the drain, one call at a time (SpecDrain)                *)
(* ------------------------------------------------------------------ *)

\* The first n elements of s (all of s when it has fewer).
Prefix(s, n) == SubSeq(s, 1, IF n < Len(s) THEN n ELSE Len(s))

\* The last call was a getLog() with room for an entry, or a writeLog()
\* that took the mutex with the log file open.
PoppedOrDrained ==
    /\ AllIdle
    /\ \/ obs.op = "getLog" /\ obs.arg >= 1
       \/ obs.op = "writeLog" /\ obs.preOpen /\ ~th["t1"].busy

\* C3: when logEntriesOverwritten = c > 0 and an entry is unread, the next
\* getLog() with numEntries >= 1, and the next writeLog() that takes the
\* mutex with the file open, emits one overwritten-marker with parameter c
\* before any entry, sets logEntriesOverwritten to 0 and goes on with the
\* unread entries, oldest first; with logEntriesOverwritten = 0 it emits
\* no marker.
C3_OneMarkerFirst ==
    (PoppedOrDrained /\ obs.preUnread # <<>>)
    => LET room == IF obs.op = "getLog" THEN obs.arg ELSE Len(obs.preUnread) + 1
           all == IF obs.preOv > 0
                  THEN <<Marker(obs.preUnread[1], obs.preOv)>> \o obs.preUnread
                  ELSE obs.preUnread
       IN  /\ obs.out = Prefix(all, room)
           /\ logEntriesOverwritten = 0

\* C3 witness: a getLog() has returned the marker and an entry after it,
\* and the file holds the marker an earlier writeLog() wrote.
C3_Witness ==
    /\ PoppedOrDrained
    /\ obs.op = "getLog"
    /\ obs.preOv > 0
    /\ Len(obs.out) > 1
    /\ \E i \in 1 .. Len(ReadBack(CurrentFileBytes)) :
         Event(ReadBack(CurrentFileBytes)[i]) = EVENT_LOG_ENTRIES_OVERWRITTEN

\* C10: with the log file open, N unread entries, logEntriesOverwritten = 0
\* and no append meanwhile, a writeLog() that takes the mutex appends those
\* N entries to the file in buffer order and leaves the buffer empty, and
\* the file reads back as what it held before followed by the N entries.
C10_DrainRoundTrip ==
    (/\ AllIdle
     /\ obs.op = "writeLog"
     /\ obs.preOpen
     /\ ~th["t1"].busy
     /\ obs.preOv = 0)
    => (/\ Len(CurrentFileBytes) = Len(obs.preFile) + Len(obs.preUnread) * EntrySize
        /\ SubSeq(CurrentFileBytes, 1, Len(obs.preFile)) = obs.preFile
        /\ ReadBack(CurrentFileBytes) = ReadBack(obs.preFile) \o obs.preUnread
        /\ pLogNextEmpty = pLogFirstFull
        /\ numLogItems = 0)

\* C10 witness: a writeLog() has appended two entries, one of them with a
\* negative parameter, to a file that held an entry.
C10_Witness ==
    /\ AllIdle
    /\ obs.op = "writeLog"
    /\ obs.preOpen
    /\ ~th["t1"].busy
    /\ obs.preOv = 0
    /\ obs.preFile # <<>>
    /\ Len(obs.preUnread) >= 2
    /\ \E i \in 1 .. Len(obs.preUnread) : Parameter(obs.preUnread[i]) < 0

(* ------------------------------------------------------------------ *)
(* The timestamp that goes back (SpecWrap)                              *)
(* ------------------------------------------------------------------ *)

\* C5: whatever the timer reads, a LOG or LOGX whose timestamp is smaller
\* than gLastLogTime stores exactly one EVENT_LOG_TIME_WRAP entry, with
\* that timestamp as parameter, immediately before its own entry (the call
\* LOG makes of itself stores no further marker), and a LOG or LOGX whose
\* timestamp is not smaller stores its own entry only.
C5_OneWrapMarker ==
    (AllIdle /\ obs.op \in {"LOG", "LOGX"} /\ obs.out # <<>>)
    => LET own == obs.out[Len(obs.out)]
       IN  IF Timestamp(own) < obs.preLast
           THEN /\ Len(obs.out) = 2
                /\ Event(obs.out[1]) = EVENT_LOG_TIME_WRAP
                /\ Parameter(obs.out[1]) = Timestamp(own)
           ELSE Len(obs.out) = 1

(* ------------------------------------------------------------------ *)
(* LOG without the mutex (SpecLoss, SpecRace)                           *)
(* ------------------------------------------------------------------ *)

\* C4: with one thread logging with LOG while another pops with getLog()
\* and drains with writeLog(), whenever no call is in progress the entries
\* appended since initLog() are all accounted for: those handed out by
\* getLog() or written by writeLog(), plus the unread ones between
\* pLogFirstFull and pLogNextEmpty, plus the counts of the markers emitted,
\* plus logEntriesOverwritten.
C4_NoSilentLoss ==
    AllIdle => obs.owed = Distance + logEntriesOverwritten

\* C6: under any interleaving of threads logging with LOG and LOGX, popping
\* and draining, 0 <= numLogItems <= MAX_NUM_LOG_ENTRIES and pLogNextEmpty
\* and pLogFirstFull point to slots of the entry array.
C6_HeaderInvariant ==
    /\ numLogItems >= 0
    /\ numLogItems <= MAX_NUM_LOG_ENTRIES
    /\ InRange(pLogNextEmpty)
    /\ InRange(pLogFirstFull)

(* ------------------------------------------------------------------ *)
(* The mutex (SpecLock)                                                 *)
(* ------------------------------------------------------------------ *)

\* Thread p is between taking gLogMutex and releasing it in LOGX,
\* getLog(), writeLog() or printLog().
InSection(p) ==
    \/ th[p].op = "LOGX" /\ th[p].pc \notin {"idle", "logx_lock"}
    \/ th[p].op = "getLog" /\ th[p].pc \notin {"idle", "getlog_lock"}
    \/ th[p].op = "writeLog" /\ th[p].pc \notin {"idle", "writelog_try"}
    \/ th[p].op = "printLog" /\ th[p].pc \notin {"idle", "printlog_lock"}

\* C8: no two threads are at the same time inside the sections of LOGX,
\* getLog(), writeLog() (once trylock() has succeeded) and printLog() that
\* the mutex protects, and a thread owns the mutex exactly while it is in
\* such a section: every path out of the function has released it.
C8_MutualExclusion ==
    /\ \A p, q \in Threads : (p # q) => ~(InSection(p) /\ InSection(q))
    /\ \A p \in Threads : (gLogMutex = p) <=> InSection(p)

\* C8 witness: one thread is inside printLog() while the other waits for
\* the mutex in LOGX.
C8_Witness ==
    \E p, q \in Threads :
        /\ InSection(p)
        /\ th[p].op = "printLog"
        /\ th[q].pc = "logx_lock"

\* C9: a writeLog() called while another thread owns the mutex does not
\* wait: its next step is always possible and is the return, which leaves
\* the cursors, numLogItems, logEntriesOverwritten, gNumWrites, gpFile and
\* the file as they are (and the mutex with its owner).
C9_DrainNeverBlocks ==
    /\ [](\A p \in Threads : (th[p].pc = "writelog_try") => ENABLED WriteLogTry(p))
    /\ [][\A p \in Threads :
            (/\ th[p].pc = "writelog_try"
             /\ gLogMutex \notin {NoThread, p}
             /\ th'[p] # th[p])
            => (/\ th'[p].pc = "idle"
                /\ th'[p].busy
                /\ UNCHANGED <<ctxVars, fileVars, gLogMutex>>)]_vars

\* C9 witness: writeLog() has returned without the mutex, which the other
\* thread still owns.
C9_Witness ==
    \E p, q \in Threads :
        /\ th[p].op = "writeLog"
        /\ th[p].pc = "idle"
        /\ th[p].busy
        /\ gLogMutex = q

(* ------------------------------------------------------------------ *)
(* Closing the log (SpecClose)                                          *)
(* ------------------------------------------------------------------ *)

\* The number of entries the entries s of a file account for: one for an
\* entry, and the count it carries for an overwritten-marker.
RECURSIVE Accounted(_)
Accounted(s) ==
    IF s = <<>> THEN 0
    ELSE (IF Event(Head(s)) = EVENT_LOG_ENTRIES_OVERWRITTEN
          THEN Parameter(Head(s)) ELSE 1) + Accounted(Tail(s))

\* The entries written, since deinitLog() was called, to the file that was
\* open then.
WrittenOnClose ==
    LET bytes == disk[obs.closing.name]
    IN  ReadBack(SubSeq(bytes, obs.closing.bytes + 1, Len(bytes)))

\* deinitLog() has returned to thread p, and the log file was open when it
\* was called.
Closed(p) ==
    /\ th[p].pc = "idle"
    /\ th[p].op = "deinitLog"
    /\ obs.closing.open

\* C11: under any interleaving with other callers of the log, when
\* deinitLog() returns and the log file was open, gpFile is NULL and none of
\* the entries that were unread when it was called is left in the buffer
\* only: each has been written to the file (or, having been overwritten
\* since, is counted by an overwritten-marker written to the file).
C11_CloseDrains ==
    \A p \in Threads :
        Closed(p) => (/\ gpFile = NULL
                      /\ Accounted(WrittenOnClose) >= obs.closing.unread)

(* ------------------------------------------------------------------ *)
(* The upload of the log files                                          *)
(* ------------------------------------------------------------------ *)

\* The files the transfer pass of the background task has taken so far.
Transferred == {r.file : r \in {q \in obs.passes : q.taken}}

\* The background task u has read the directory to its end.
PassDone(u) ==
    /\ th[u].op = "logFileUploadCallback"
    /\ th[u].pc \in {"up_done", "idle"}
    /\ ul[u].x = 0
    /\ ul[u].entries = <<>>

\* C12: when a log file is open for append, the counting pass of
\* beginLogFileUpload() counts exactly the files of the directory other
\* than the open one, the transfer pass of the background task takes a
\* directory entry exactly when it is a file other than the open one, and
\* a transfer pass that has read the directory to its end has taken every
\* file the directory held except the open one.
C12_ExcludesCurrent ==
    /\ obs.count.open # NULL
           => obs.count.names = obs.count.files \ {obs.count.open}
    /\ \A r \in obs.passes :
           r.open # NULL => (r.taken <=> (r.file # NULL /\ r.file # r.open))
    /\ \A u \in Uploads :
           (PassDone(u) /\ gpFile # NULL) => Transferred = obs.listed \ {gpFile}

\* The counting pass and a complete transfer pass have both happened with
\* the last file open and the earlier files in the directory.
C12_Witness ==
    /\ gpFile = NumFileNames - 1
    /\ obs.count.names = FileNames \ {gpFile}
    /\ \E u \in Uploads : PassDone(u) /\ Transferred = FileNames \ {gpFile}
    /\ \E r \in obs.passes : r.file = gpFile /\ ~r.taken

\* C13: in every run of the upload, with failures of the directory, the
\* socket, the connection, the file and the reads and with
\* stopLogFileUpload() at any point, a file has been removed only when the
\* reads of it had reached end-of-file and every byte of it had been sent;
\* every other file is still in the directory.
C13_RemovedOnlyWhenSent ==
    /\ \A r \in obs.removed : r.eof /\ r.sent
    /\ dir = FileNames \ {r.file : r \in obs.removed}

\* A file has been removed after a send of it had failed and been made
\* up for.
C13_Witness ==
    /\ \E r \in obs.removed : r.eof /\ r.sent /\ r.file \notin dir
    /\ obs.failed

\* C14: once a send has failed in the middle of a file, no send is tried
\* again for that file, the file stays in the directory and the background
\* task takes no further file.
C14_SendFailureAborts ==
    /\ ~obs.resent
    /\ \A u \in Uploads :
         (obs.failed /\ ul[u].state = "running")
             => /\ ul[u].pFile \in dir
                /\ th[u].pc \notin {"up_read", "up_sockopen", "up_fopen"}

\* gpLogUploadThread, gpLoggingServer and gpLogFileUploadData are NULL and
\* no upload thread exists.
Released ==
    /\ gpLogUploadThread = NoThread
    /\ gpLoggingServer = <<>>
    /\ gpLogFileUploadData = <<>>
    /\ \A u \in Uploads : ul[u] = NoUploadThread /\ th[u] = IdleFrame

\* C15: once the background task has run to its end by itself, the
\* thread, the server address and the upload data are released, and a call
\* of beginLogFileUpload() made then is not rejected as already running.
C15_CompletionReleases ==
    /\ \A u \in Uploads :
         ul[u].state = "finished"
             => /\ gpLogUploadThread = NoThread
                /\ gpLoggingServer = <<>>
                /\ gpLogFileUploadData = <<>>
    /\ obs.test.rejected => obs.test.thread # "finished"

\* C17: when stopLogFileUpload() has returned, whatever the upload was
\* doing, gpLogUploadThread, gpLoggingServer and gpLogFileUploadData are
\* NULL and no upload thread is left; the call of beginLogFileUpload()
\* that follows is not rejected as already running, and a call of
\* stopLogFileUpload() that follows finds and leaves everything released.
C17_StopReleases ==
    \A p \in Threads :
        /\ (th[p].op = "stopLogFileUpload" /\ th[p].pc = "idle") => Released
        /\ (th[p].op = "beginLogFileUpload" /\ obs.prev = "stopLogFileUpload")
               => ~obs.test.rejected
        /\ (th[p].op = "stopLogFileUpload" /\ obs.prev = "stopLogFileUpload")
               => Released

\* The upload has been started, stopped and started again, and the thread
\* of the second start runs.
C17_Witness ==
    /\ th["t1"].op = "beginLogFileUpload"
    /\ obs.prev = "stopLogFileUpload"
    /\ obs.calls = 0
    /\ \E u \in Uploads : ul[u].state = "running"

\* The upload threads that exist: created, running or finished and not
\* deleted.
UploadThreads == {u \in Uploads : ul[u].state # "none"}

\* C16: however the calls of beginLogFileUpload() follow or overlap each
\* other, at most one upload thread exists: a call made while there is
\* one creates no other.
C16_OneUploadThread == Cardinality(UploadThreads) <= 1

\* The log files that are open for writing, each as often as it is open.
OpenHandles == {x \in FileNames : handles[x] > 0}

\* No call is in progress.
Quiet == \A p \in Threads : th[p].pc = "idle"

\* C18: between the calls of initLogFile(), writeLog(), printLog() and
\* deinitLog() at most one log file is open for writing, it is open once,
\* and when gpFile is set it is that file and gCurrentLogFileName names it.
C18_OneOpenFile ==
    Quiet => /\ \A x \in OpenHandles : handles[x] = 1 /\ OpenHandles \subseteq {x}
             /\ gpFile # NULL => (OpenHandles = {gpFile}
                                   /\ gCurrentLogFileName = gpFile)

\* C19: initLogFile() returns false when the path was too long and when
\* no log file could be created, a log file being open before or not.
C19_InitFailureReported ==
    \A p \in Threads :
        (/\ th[p].op = "initLogFile"
         /\ th[p].pc = "idle"
         /\ ~obs.opening.good \/ ~obs.opening.created) => th[p].ret = 0

\* initLog() has returned to thread p.
Restarted(p) == th[p].op = "initLog" /\ th[p].pc = "idle"

\* The last unread entry.
Newest == Unread[Len(Unread)]

\* C20: when initLog() has returned on a region whose magic word and
\* version matched, the buffer is what one append of a start-again entry
\* makes of the buffer the call found: the entries that were unread are
\* unread in their order, followed by the new entry, the oldest of them
\* being overwritten and counted when the buffer was full, and the cursors
\* and counts have moved by this append only.  When the header did not
\* match the buffer holds one start entry and nothing else.
C20_WarmStart ==
    \A p \in Threads :
        Restarted(p) =>
            LET pre == obs.restart
                full == Len(pre.unread) = MAX_NUM_LOG_ENTRIES - 1
            IN  /\ magicWord = MAGIC_WORD
                /\ version = LOG_VERSION
                /\ Unread # <<>>
                /\ Parameter(Newest) = LOG_VERSION
                /\ IF pre.warm
                   THEN /\ Event(Newest) = EVENT_LOG_START_AGAIN
                        /\ pLogNextEmpty = (pre.pLogNextEmpty + 1) % MAX_NUM_LOG_ENTRIES
                        /\ IF full
                           THEN /\ Unread = Append(Tail(pre.unread), Newest)
                                /\ pLogFirstFull =
                                       (pre.pLogFirstFull + 1) % MAX_NUM_LOG_ENTRIES
                                /\ numLogItems = pre.numLogItems
                                /\ logEntriesOverwritten = pre.logEntriesOverwritten + 1
                           ELSE /\ Unread = Append(pre.unread, Newest)
                                /\ pLogFirstFull = pre.pLogFirstFull
                                /\ numLogItems = pre.numLogItems + 1
                                /\ logEntriesOverwritten = pre.logEntriesOverwritten
                   ELSE /\ Event(Newest) = EVENT_LOG_START
                        /\ Len(Unread) = 1
                        /\ pLogFirstFull = 0
                        /\ pLogNextEmpty = 1
                        /\ numLogItems = 1
                        /\ logEntriesOverwritten = 0

\* initLog() has returned on a full buffer whose header matched, with
\* entries overwritten before.
C20_Witness ==
    /\ Restarted("t1")
    /\ obs.restart.warm
    /\ Len(obs.restart.unread) = MAX_NUM_LOG_ENTRIES - 1
    /\ obs.restart.logEntriesOverwritten > 0
    /\ Len(Unread) = MAX_NUM_LOG_ENTRIES - 1

\* beginLogFileUpload() has returned to thread p.
Begun(p) == th[p].op = "beginLogFileUpload" /\ th[p].pc = "idle"

\* C21: when the name of the logging server could not be resolved,
\* beginLogFileUpload() returns false and has started no upload thread.
C21_UnresolvedFails ==
    \A p \in Threads :
        (Begun(p) /\ ~obs.test.resolved)
            => /\ th[p].ret = 0
               /\ \A u \in Uploads : ul[u].state \notin {"running", "finished"}

\* The difference a - b of two unsigned ints.
Minus(a, b) == (a - b + TimeModulus) % TimeModulus

\* The timestamp of the entry stored last is the reading of gLogTime it
\* was made from plus the sum of the intervals given to resumeLog() since
\* initLog(), as an unsigned int.
StampIsReadingPlusOffsets ==
    obs.stamped.timestamp = (obs.stamped.raw + obs.stamped.offsets) % TimeModulus

\* C22 as stated: every entry stored after suspendLog() and resumeLog(D)
\* has the reading of gLogTime at its append plus the sum of the intervals
\* as its timestamp, and this timestamp is at least D greater, in unsigned
\* arithmetic, than the reading of gLogTime when resumeLog() was called.
C22_OffsetAtLeastInterval ==
    /\ StampIsReadingPlusOffsets
    /\ (obs.stamped.since.done /\ obs.stamped.since.suspended)
           => Minus(obs.stamped.timestamp, obs.stamped.since.raw)
                 >= obs.stamped.since.interval

\* C22, amended: every entry LOG stores has the reading of gLogTime at
\* its append plus the sum of the intervals given to resumeLog() since
\* initLog() as its timestamp, in unsigned arithmetic, and gLogTimeOffset
\* is that sum.
C22_TimestampIsReadingPlusOffsets ==
    /\ StampIsReadingPlusOffsets
    /\ gLogTimeOffset = obs.offsets

\* An entry has been stored after suspendLog() and the second call of
\* resumeLog() with an interval that is not 0, from a reading that is not 0.
C22_Witness ==
    /\ obs.stamped.since.done
    /\ obs.stamped.since.suspended
    /\ obs.stamped.since.interval # 0
    /\ obs.stamped.offsets # obs.stamped.since.interval
    /\ obs.stamped.raw # 0
    /\ obs.stamped.timestamp = (obs.stamped.raw + obs.stamped.offsets) % TimeModulus

\* C23: a running upload thread reaches the end of logFileUploadCallback()
\* and has released the upload data and the address of the server then.
C23_UploadTerminates ==
    \A u \in Uploads :
        (ul[u].state = "running")
            ~> (ul[u].state = "finished" /\ gpLoggingServer = <<>>
                                        /\ gpLogFileUploadData = <<>>)

\* C24: when the upload thread reads the next entry of the directory, and
\* when it is about to open the socket for a file, the socket is closed:
\* the socket opened for a file has been closed on every path.
C24_FreshSocket ==
    \A u \in Uploads :
        th[u].pc \in {"up_read", "up_sockopen"} => ul[u].sock = "closed"

\* C25: when the thread could not be started, beginLogFileUpload() returns
\* false with gpLogUploadThread, gpLoggingServer and gpLogFileUploadData
\* NULL, and no call of beginLogFileUpload() is rejected on account of a
\* thread that was created and never started.
C25_StartFailureIdle ==
    /\ \A p \in Threads :
          (Begun(p) /\ obs.test.unstarted)
              => /\ th[p].ret = 0
                 /\ gpLogUploadThread = NoThread
                 /\ gpLoggingServer = <<>>
                 /\ gpLogFileUploadData = <<>>
    /\ obs.test.rejected => obs.test.thread # "created"

\* The overwritten-markers among the entries getLog() has written.
MarkersOut ==
    Cardinality({i \in 1 .. Len(obs.out) :
                    Event(obs.out[i]) = EVENT_LOG_ENTRIES_OVERWRITTEN})

\* C26: getLog(pEntries, numEntries) has never written more than numEntries
\* entries, the overwritten-marker included; it returns the number of
\* entries written, which is the number of entries it has removed from the
\* buffer plus the markers written; with numEntries <= 0 it returns 0 and
\* leaves the buffer as it was.
C26_GetLogBounded ==
    obs.op = "getLog" =>
        /\ Len(obs.out) <= (IF obs.arg > 0 THEN obs.arg ELSE 0)
        /\ \A p \in Threads :
              (th[p].op = "getLog" /\ th[p].pc = "idle") =>
                  /\ th[p].ret = Len(obs.out)
                  /\ Len(obs.preUnread) - Len(Unread) = th[p].ret - MarkersOut
                  /\ obs.arg <= 0 =>
                        /\ th[p].ret = 0
                        /\ Unread = obs.preUnread
                        /\ numLogItems = obs.preItems
                        /\ logEntriesOverwritten = obs.preOv

\* getLog() has returned with a marker as the only entry there was room
\* for, the entries all left in the buffer.
C26_Witness ==
    /\ obs.op = "getLog"
    /\ th["t1"].op = "getLog"
    /\ th["t1"].pc = "idle"
    /\ obs.arg = 1
    /\ th["t1"].ret = 1
    /\ MarkersOut = 1
    /\ Unread = obs.preUnread
    /\ Unread # <<>>

\* C27: a thread that is about to close gpFile, to open it again or to set
\* it to NULL holds gLogMutex, and a thread that is about to write to
\* gpFile, having found it open, finds it open still.
C27_FileUnderLock ==
    \A p \in Threads :
        /\ th[p].pc \in {"writelog_flush", "deinit_flush", "deinit_fclose"}
              => gLogMutex = p
        /\ th[p].pc \in {"writelog_marker", "writelog_write"} => gpFile # NULL

\* The pointer holds an object that has been deleted.
Dangling(ptr) == ptr # <<>> /\ ptr[1].freed

\* C28: no object is deleted twice, and gpLogFileUploadData and
\* gpLoggingServer point to a deleted object only while the upload thread
\* is between the delete and the assignment of NULL that follows it.
C28_ReleasedOnce ==
    /\ ~obs.fault
    /\ Dangling(gpLogFileUploadData) => \E u \in Uploads : th[u].pc = "up_nulldata"
    /\ Dangling(gpLoggingServer) => \E u \in Uploads : th[u].pc = "up_nullserver"

\* C29: when initLogFile() has taken the path, the path it has stored
\* fits, with its terminator, in the LOGGING_MAX_LEN_PATH + 1 bytes of
\* gLogPath, and the name newLogFile() has composed fits, with its
\* terminator, in the LOGGING_MAX_LEN_FILE_PATH + 1 bytes of
\* gCurrentLogFileName.
C29_NamesFit ==
    \A p \in Threads :
        (th[p].op = "initLogFile" /\ th[p].pc = "idle" /\ obs.opening.good)
            => /\ Len(gLogPath) + 1 <= LOGGING_MAX_LEN_PATH + 1
               /\ Len(NameBuffer) + 1 <= LOGGING_MAX_LEN_FILE_PATH + 1

====
